---- MODULE Spec2Model ----
(***************************************************************************)
(* A model of surf (src/main.go, the session-aware program of lines        *)
(* 1-1264): the command-line parser, the session store, the stop command   *)
(* and the request pipeline of processRequest, with the browser, the       *)
(* file system and the chromedp driver as the environment.                 *)
(*                                                                         *)
(* Strings are sequences of symbols.  Data that the code inspects          *)
(* (tokens, URLs, numbers, console levels, page text) is spelled symbol    *)
(* by symbol; a fixed message literal of the source is a single symbol.    *)
(***************************************************************************)
EXTENDS Integers, Sequences, FiniteSets, TLC

(* ------------------------------------------------------------------ *)
(* Bounds of the model                                                  *)
(* ------------------------------------------------------------------ *)
MaxArgs == 3
MaxEvents == 1
MaxLaunch == 2
MaxTokens == 4
MaxSizeLen == 4
MaxTextLen == 6
MaxAppends == 2

(* ------------------------------------------------------------------ *)
(* Strings                                                              *)
(* ------------------------------------------------------------------ *)
HasPrefix(s, prefix) ==
    /\ Len(s) >= Len(prefix)
    /\ SubSeq(s, 1, Len(prefix)) = prefix

TrimPrefix(s, prefix) ==
    IF HasPrefix(s, prefix) THEN SubSeq(s, Len(prefix) + 1, Len(s)) ELSE s

Contains(s, sub) ==
    \E k \in 1..(Len(s) - Len(sub) + 1) : SubSeq(s, k, k + Len(sub) - 1) = sub

RECURSIVE ReplaceAll(_, _, _)
ReplaceAll(s, old, new) ==
    IF Len(s) < Len(old) THEN s
    ELSE IF HasPrefix(s, old)
         THEN new \o ReplaceAll(SubSeq(s, Len(old) + 1, Len(s)), old, new)
         ELSE <<s[1]>> \o ReplaceAll(Tail(s), old, new)

\* strings.Split(s, sep) for a one-symbol separator
RECURSIVE SplitFrom(_, _, _)
SplitFrom(s, sep, cur) ==
    IF s = <<>> THEN <<cur>>
    ELSE IF s[1] = sep THEN <<cur>> \o SplitFrom(Tail(s), sep, <<>>)
         ELSE SplitFrom(Tail(s), sep, Append(cur, s[1]))

Split(s, sep) == SplitFrom(s, sep, <<>>)

RECURSIVE Join(_, _)
Join(parts, sep) ==
    IF parts = <<>> THEN <<>>
    ELSE IF Len(parts) = 1 THEN parts[1]
         ELSE parts[1] \o sep \o Join(Tail(parts), sep)

IsSpace(c) == c \in {" ", "\n", "\t", "\r"}

RECURSIVE TrimLeft(_)
TrimLeft(s) == IF s # <<>> /\ IsSpace(s[1]) THEN TrimLeft(Tail(s)) ELSE s

RECURSIVE TrimRight(_)
TrimRight(s) ==
    IF s # <<>> /\ IsSpace(s[Len(s)]) THEN TrimRight(SubSeq(s, 1, Len(s) - 1)) ELSE s

TrimSpace(s) == TrimRight(TrimLeft(s))

UpperOf(c) ==
    CASE c = "l" -> "L" [] c = "o" -> "O" [] c = "g" -> "G" [] c = "w" -> "W"
      [] c = "a" -> "A" [] c = "r" -> "R" [] c = "n" -> "N" [] c = "i" -> "I"
      [] c = "e" -> "E" [] c = "f" -> "F" [] c = "d" -> "D" [] c = "b" -> "B"
      [] c = "u" -> "U" [] OTHER -> c

ToUpper(s) == [k \in 1..Len(s) |-> UpperOf(s[k])]

Repeat(c, n) == [k \in 1..n |-> c]

Digits == <<"0", "1", "2", "3", "4", "5", "6", "7", "8", "9">>

IsDigit(c) == \E d \in 1..10 : Digits[d] = c

DigitVal(c) == (CHOOSE d \in 1..10 : Digits[d] = c) - 1

RECURSIVE DigitsVal(_, _)
DigitsVal(s, acc) ==
    IF s = <<>> THEN acc ELSE DigitsVal(Tail(s), 10 * acc + DigitVal(s[1]))

RECURSIVE TrimZeros(_)
TrimZeros(s) == IF Len(s) > 1 /\ s[1] = "0" THEN TrimZeros(Tail(s)) ELSE s

\* The digits of the largest int (64 bits), and of the magnitude of the smallest
MaxIntDigits ==
    <<"9", "2", "2", "3", "3", "7", "2", "0", "3", "6",
      "8", "5", "4", "7", "7", "5", "8", "0", "7">>

MinIntDigits == [MaxIntDigits EXCEPT ![19] = "8"]

\* a > b for two digit strings of the same length
DigitsGreater(a, b) ==
    \E k \in 1..Len(a) :
        /\ DigitVal(a[k]) > DigitVal(b[k])
        /\ \A j \in 1..(k - 1) : a[j] = b[j]

\* The value does not fit an int: strconv's range error
OutOfRange(body, negative) ==
    LET sig == TrimZeros(body) IN
    \/ Len(sig) > Len(MaxIntDigits)
    \/ /\ Len(sig) = Len(MaxIntDigits)
       /\ DigitsGreater(sig, IF negative THEN MinIntDigits ELSE MaxIntDigits)

\* strconv.Atoi: an optional sign, then one or more decimal digits, of a value
\* that fits an int.  val is meaningful when err is FALSE; the inputs of the
\* model that parse have at most nine digits.
Atoi(s) ==
    LET negative == s # <<>> /\ s[1] = "-"
        body == IF s # <<>> /\ s[1] \in {"+", "-"} THEN Tail(s) ELSE s
        syntax == body # <<>> /\ \A k \in 1..Len(body) : IsDigit(body[k])
        good == syntax /\ ~OutOfRange(body, negative)
        mag  == IF good THEN DigitsVal(body, 0) ELSE 0
    IN  [err |-> ~good,
         val |-> IF negative THEN 0 - mag ELSE mag]

RECURSIVE Itoa(_)
Itoa(n) ==
    IF n < 0 THEN <<"-">> \o Itoa(0 - n)
    ELSE IF n < 10 THEN <<Digits[n + 1]>>
         ELSE Itoa(n \div 10) \o <<Digits[(n % 10) + 1]>>

(* ------------------------------------------------------------------ *)
(* Pure helpers of the program                                          *)
(* ------------------------------------------------------------------ *)
DEFAULT_TRUNCATE_AFTER == 100000

HttpPrefix == <<"h", "t", "t", "p", ":", "/", "/">>
HttpsPrefix == <<"h", "t", "t", "p", "s", ":", "/", "/">>

ensureProtocol(url) ==
    IF ~HasPrefix(url, HttpPrefix) /\ ~HasPrefix(url, HttpsPrefix)
    THEN HttpPrefix \o url
    ELSE url

DefaultWidth == 1280
DefaultHeight == 720

\* A parser that takes whatever Atoi leaves for a part that is not a number
parseWindowSizeLoose(size) ==
    LET parts == Split(size, "x") IN
    IF Len(parts) # 2 THEN <<DefaultWidth, DefaultHeight>>
    ELSE <<Atoi(parts[1]).val, Atoi(parts[2]).val>>

parseWindowSize(size) ==
    LET parts == Split(size, "x") IN
    IF Len(parts) # 2 THEN <<DefaultWidth, DefaultHeight>>
    ELSE LET w == Atoi(parts[1])
             h == Atoi(parts[2])
         IN  IF w.err \/ h.err THEN <<DefaultWidth, DefaultHeight>>
             ELSE <<w.val, h.val>>

NL == "\n"

\* The number of times the loop of lines 1251-1253 runs its body
RECURSIVE CollapseCount(_)
CollapseCount(markdown) ==
    IF Contains(markdown, <<NL, NL, NL>>)
    THEN 1 + CollapseCount(ReplaceAll(markdown, <<NL, NL, NL>>, <<NL, NL>>))
    ELSE 0

RECURSIVE CollapseBlankLines(_)
CollapseBlankLines(markdown) ==
    IF Contains(markdown, <<NL, NL, NL>>)
    THEN CollapseBlankLines(ReplaceAll(markdown, <<NL, NL, NL>>, <<NL, NL>>))
    ELSE markdown

NormalizeBullet(line) ==
    IF HasPrefix(line, <<"*", " ">>) \/ HasPrefix(line, <<"-", " ">>)
    THEN <<"-", " ">> \o TrimPrefix(TrimPrefix(line, <<"*", " ">>), <<"-", " ">>)
    ELSE line

\* A cleanup that replaces once instead of looping
cleanMarkdownOnePass(markdown) ==
    LET collapsed == ReplaceAll(markdown, <<NL, NL, NL>>, <<NL, NL>>)
        lines == Split(collapsed, NL)
        fixed == [k \in 1..Len(lines) |-> NormalizeBullet(lines[k])]
    IN  TrimSpace(Join(fixed, <<NL>>))

cleanMarkdown(markdown) ==
    LET collapsed == CollapseBlankLines(markdown)
        lines == Split(collapsed, NL)
        fixed == [k \in 1..Len(lines) |-> NormalizeBullet(lines[k])]
    IN  TrimSpace(Join(fixed, <<NL>>))

(* ------------------------------------------------------------------ *)
(* Command line                                                         *)
(* ------------------------------------------------------------------ *)
Flag(name) == <<"-", "-", name>>

DefaultProfile == <<"d", "e", "f", "a", "u", "l", "t">>

\* the Config literal at the head of parseArgs
NewConfig ==
    [URL |-> <<>>, Profile |-> DefaultProfile, FormID |-> <<>>, Inputs |-> <<>>,
     AfterSubmitURL |-> <<>>, JSCode |-> <<>>, ScreenshotPath |-> <<>>,
     TruncateAfter |-> DEFAULT_TRUNCATE_AFTER, RawFlag |-> FALSE,
     Headful |-> FALSE, WindowSize |-> <<>>, Session |-> <<>>,
     StopSession |-> FALSE, Stealth |-> FALSE]

FormInput(name, value) == [Name |-> name, Value |-> value]

\* A parser that falls back to the default on a value it does not accept
parseTruncateAfterReset(token, config) ==
    LET r == Atoi(token) IN
    [config EXCEPT !.TruncateAfter =
        IF ~r.err /\ r.val > 0 THEN r.val ELSE DEFAULT_TRUNCATE_AFTER]

\* A parser that accepts every integer
parseTruncateAfterAny(token, config) ==
    LET r == Atoi(token) IN
    IF ~r.err THEN [config EXCEPT !.TruncateAfter = r.val] ELSE config

\* parseArgs, lines 1011-1014: the value of --truncate-after
parseTruncateAfter(token, config) ==
    LET r == Atoi(token) IN
    IF ~r.err /\ r.val > 0 THEN [config EXCEPT !.TruncateAfter = r.val] ELSE config

\* A parser that makes a Form Input of every --input with a name
parseInputLoose(args, i, config) ==
    IF i + 2 <= Len(args) /\ args[i + 2] = Flag("value")
    THEN [next |-> IF i + 3 <= Len(args) THEN i + 4 ELSE i + 3,
          config |-> [config EXCEPT !.Inputs =
                         Append(@, FormInput(args[i + 1],
                                   IF i + 3 <= Len(args) THEN args[i + 3] ELSE <<>>))]]
    ELSE [next |-> i + 2,
          config |-> [config EXCEPT !.Inputs = Append(@, FormInput(args[i + 1], <<>>))]]

\* parseArgs, lines 1027-1039: --input at position i with a token after it;
\* next is the position the loop goes on from
parseInput(args, i, config) ==
    IF i + 2 <= Len(args) /\ args[i + 2] = Flag("value")
    THEN IF i + 3 <= Len(args)
         THEN [next |-> i + 4,
               config |-> [config EXCEPT !.Inputs =
                              Append(@, FormInput(args[i + 1], args[i + 3]))]]
         ELSE [next |-> i + 3, config |-> config]
    ELSE [next |-> i + 2, config |-> config]

\* A parser in which the last token that is not a flag is the URL
parseOtherLast(arg, config) ==
    IF ~HasPrefix(arg, <<"-", "-">>) THEN [config EXCEPT !.URL = arg] ELSE config

\* parseArgs, lines 1073-1076: a token that is none of the flags
parseOther(arg, config) ==
    IF config.URL = <<>> /\ ~HasPrefix(arg, <<"-", "-">>)
    THEN [config EXCEPT !.URL = arg]
    ELSE config

\* The loop of parseArgs from position i (1-based).  exit names the text
\* printed when --help or --quickstart ends the process inside the loop.
RECURSIVE parseLoop(_, _, _)
parseLoop(args, i, config) ==
    IF i > Len(args) THEN [exit |-> "none", config |-> config]
    ELSE
    LET arg == args[i]
        more == i + 1 <= Len(args)
    IN
    CASE arg = Flag("help") -> [exit |-> "help", config |-> config]
      [] arg = Flag("quickstart") -> [exit |-> "quickstart", config |-> config]
      [] arg = Flag("raw") ->
            parseLoop(args, i + 1, [config EXCEPT !.RawFlag = TRUE])
      [] arg = Flag("truncate-after") ->
            IF more
            THEN parseLoop(args, i + 2, parseTruncateAfter(args[i + 1], config))
            ELSE parseLoop(args, i + 1, config)
      [] arg = Flag("screenshot") ->
            IF more
            THEN parseLoop(args, i + 2, [config EXCEPT !.ScreenshotPath = args[i + 1]])
            ELSE parseLoop(args, i + 1, config)
      [] arg = Flag("form") ->
            IF more
            THEN parseLoop(args, i + 2, [config EXCEPT !.FormID = args[i + 1]])
            ELSE parseLoop(args, i + 1, config)
      [] arg = Flag("input") ->
            IF more
            THEN LET got == parseInput(args, i, config) IN
                 parseLoop(args, got.next, got.config)
            ELSE parseLoop(args, i + 1, config)
      [] arg = Flag("value") -> parseLoop(args, i + 1, config)
      [] arg = Flag("after-submit") ->
            IF more
            THEN parseLoop(args, i + 2,
                     [config EXCEPT !.AfterSubmitURL = ensureProtocol(args[i + 1])])
            ELSE parseLoop(args, i + 1, config)
      [] arg = Flag("js") ->
            IF more
            THEN parseLoop(args, i + 2, [config EXCEPT !.JSCode = args[i + 1]])
            ELSE parseLoop(args, i + 1, config)
      [] arg = Flag("profile") ->
            IF more
            THEN parseLoop(args, i + 2, [config EXCEPT !.Profile = args[i + 1]])
            ELSE parseLoop(args, i + 1, config)
      [] arg = Flag("headful") ->
            parseLoop(args, i + 1, [config EXCEPT !.Headful = TRUE])
      [] arg = Flag("window-size") ->
            IF more
            THEN parseLoop(args, i + 2, [config EXCEPT !.WindowSize = args[i + 1]])
            ELSE parseLoop(args, i + 1, config)
      [] arg = Flag("session") ->
            IF more
            THEN parseLoop(args, i + 2, [config EXCEPT !.Session = args[i + 1]])
            ELSE parseLoop(args, i + 1, config)
      [] arg = Flag("stop") ->
            parseLoop(args, i + 1, [config EXCEPT !.StopSession = TRUE])
      [] arg = Flag("stealth") ->
            parseLoop(args, i + 1, [config EXCEPT !.Stealth = TRUE])
      [] OTHER -> parseLoop(args, i + 1, parseOther(arg, config))

parseArgs(args) == parseLoop(args, 1, NewConfig)

(* ------------------------------------------------------------------ *)
(* Inputs                                                               *)
(* ------------------------------------------------------------------ *)
UrlBare == <<"a">>
UrlHttp == HttpPrefix \o <<"a">>
Sid == <<"s", "1">>
JsText == <<"j">>

\* Short command lines: every token list of at most MaxArgs tokens over the
\* tokens the stop and help paths depend on
FreeTokens ==
    {UrlBare, Sid, Flag("stop"), Flag("session"), Flag("help"), Flag("profile")}

RECURSIVE TokenLists(_)
TokenLists(n) ==
    IF n = 0 THEN {<<>>}
    ELSE LET shorter == TokenLists(n - 1) IN
         shorter \cup {Append(l, t) : l \in shorter, t \in FreeTokens}

FreeArgLists == TokenLists(MaxArgs)

\* Request command lines: a target, one-shot or in a session, and one option
RequestBases == { <<UrlBare>>, <<UrlHttp>>, <<UrlHttp, Flag("session"), Sid>> }

RequestOptions ==
    { <<>>, <<Flag("raw")>>, <<Flag("stealth")>>, <<Flag("quickstart")>>,
      <<Flag("js"), JsText>>,
      <<Flag("screenshot"), <<"p">>>>,
      <<Flag("after-submit"), <<"b">>>>,
      <<Flag("truncate-after"), <<"2">>>>,
      <<Flag("form"), <<"f">>, Flag("input"), <<"n">>, Flag("value"), <<"v">>>> }

RequestArgLists == {base \o option : base \in RequestBases, option \in RequestOptions}

ArgLists == FreeArgLists \cup RequestArgLists

\* Command lines of a session's life: requests, raw or not, or with a profile,
\* a visible window and a window size of their own, and the stop
SessionArgLists ==
    { <<UrlHttp>>, <<UrlHttp, Flag("session"), Sid>>,
      <<UrlHttp, Flag("session"), Sid, Flag("raw")>>,
      <<UrlHttp, Flag("session"), Sid, Flag("profile"), <<"q">>, Flag("headful"),
        Flag("window-size"), <<"1", "x", "1">>>>,
      <<Flag("stop"), Flag("session"), Sid>> }

\* Command lines of the runs in which console events are delivered
ConsoleArgLists ==
    RequestArgLists
    \cup { <<Flag("stop"), Flag("session"), Sid>>,
           <<UrlHttp, Flag("raw"), Flag("truncate-after"), <<"2">>>> }

\* Command lines of the request pipeline: those of RequestArgLists and, one-shot
\* and in a session, a request with every option and a form of two inputs
PipelineArgLists ==
    RequestArgLists
    \cup { base \o <<Flag("stealth"), Flag("form"), <<"f">>,
                      Flag("input"), <<"n">>, Flag("value"), <<"v">>,
                      Flag("input"), <<"m">>, Flag("value"), <<"w">>,
                      Flag("js"), JsText, Flag("screenshot"), <<"p">>,
                      Flag("after-submit"), <<"b">>>> :
              base \in { <<UrlHttp>>, <<UrlHttp, Flag("session"), Sid>> } }

\* Command lines that exercise the parser: every list of at most MaxTokens
\* tokens over the flags with a value, an unknown flag, the empty token, a
\* word and numbers
ParseTokens ==
    { Flag("input"), Flag("value"), Flag("truncate-after"), Flag("bogus"),
      <<>>, <<"a">>, <<"0">>, <<"-", "5">>, <<"2">> }

RECURSIVE ListsOver(_, _)
ListsOver(symbols, n) ==
    IF n = 0 THEN {<<>>}
    ELSE LET shorter == ListsOver(symbols, n - 1) IN
         shorter \cup {Append(l, t) : l \in shorter, t \in symbols}

\* A number that does not fit an int
BigNumber == Repeat("9", 20)

\* Values of --window-size: every string of at most MaxSizeLen symbols, signed
\* numbers, numbers of two digits, a number that is too large
Sizes ==
    ListsOver({"1", "x", "a"}, MaxSizeLen)
    \cup { <<"-", "1", "x", "+", "2">>, <<"1", "2", "x", "3", "4">>,
           <<"1", "x", " ", "2">>, BigNumber \o <<"x", "1">> }

WindowArgLists ==
    { base \o <<Flag("window-size"), size>> :
        base \in { <<UrlHttp>>, <<UrlHttp, Flag("session"), Sid>> }, size \in Sizes }

ParseArgLists == ListsOver(ParseTokens, MaxTokens) \cup WindowArgLists

\* What html2text may return for a captured page
Texts ==
    { <<"a", "b", "c">>, <<" ", "a", "b", "c">>, <<" ", "*", " ", "a">>,
      <<"*", " ", "a", "\n", "\n", "\n", "b">> }

\* Texts that exercise the cleanup: every string of at most MaxTextLen symbols
\* over the newline, the two bullet markers, the space and a letter
CleanSymbols == {NL, "*", "-", " ", "a"}

CleanTexts == ListsOver(CleanSymbols, MaxTextLen)

PageHTML == <<"<", "p", ">">>

\* Console API event types and argument lists, exception details
ConsoleTypes == { <<"l", "o", "g">>, <<"w", "a", "r", "n", "i", "n", "g">>,
                  <<"e", "r", "r", "o", "r">>, <<"i", "n", "f", "o">> }

ConsoleEvents ==
    [kind : {"console"}, type : ConsoleTypes, parts : {<<>>, <<<<"m">>>>}, nil : {FALSE}]
    \cup [kind : {"exception"}, type : {<<"x">>}, parts : {<<>>}, nil : {TRUE, FALSE}]

(* ------------------------------------------------------------------ *)
(* State                                                                *)
(* ------------------------------------------------------------------ *)
Procs == {1, 2}
SeqProcs == {1}

VARIABLES
    inv,        \* per invocation of the program: control state and locals
    files,      \* sessions/<id>.json, by session id
    running,    \* process ids of the session browsers that are alive
    chromium,   \* whether the browser executable is at the expected path
    goos        \* runtime.GOOS of the build

vars == <<inv, files, running, chromium, goos>>

Tokens == UNION {{w[k] : k \in 1..Len(w)} : w \in ArgLists}

Absent == [kind |-> "absent"]
Corrupt == [kind |-> "corrupt"]
RecordFile(info) == [kind |-> "record", info |-> info]

\* type SessionInfo
SessionInfo(ws, profile, headful, pid, target) ==
    [WSURL |-> ws, Profile |-> profile, Headful |-> headful, PID |-> pid,
     TargetID |-> target]

NoInfo == SessionInfo(<<>>, <<>>, FALSE, 0, <<>>)

WsOf(pid) == <<"ws:">> \o Itoa(pid)

\* Target ids the browser may give a new tab
TabIds == { <<"T", "1">>, <<"T", "2">> }

\* One entry of an invocation's history of effects
Ev(k, s, n) == [k |-> k, s |-> s, n |-> n]

NoEvent == [kind |-> "none", type |-> <<>>, parts |-> <<>>, nil |-> FALSE]

Idle ==
    [pc |-> "idle", args |-> <<>>, config |-> NewConfig, exit |-> -1,
     stdout |-> <<>>, stderr |-> <<>>, baseURL |-> <<>>, isSession |-> FALSE,
     sessionInfo |-> NoInfo, loaded |-> Absent, launched |-> 0,
     tabCtx |-> "none", alloc |-> "none", deadline |-> "unset",
     trace |-> <<>>, consoleMessages |-> <<>>, consoleMu |-> "free",
     cb |-> NoEvent, events |-> 0, read |-> <<>>,
     isLiveView |-> FALSE, loc |-> 0, currentURL |-> -1, newURL |-> -1,
     formIdx |-> 1, submitCount |-> 0, content |-> <<>>, result |-> <<>>,
     err |-> <<>>, window |-> <<>>, text |-> <<>>, markdown |-> <<>>]

Started(args) == [Idle EXCEPT !.pc = "parseArgs", !.args = args]

Upd(p, r) == inv' = [inv EXCEPT ![p] = r]

Line(s) == s \o <<NL>>

Exit(r, code) == [r EXCEPT !.pc = "exited", !.exit = code]

NoFiles == [t \in Tokens |-> Absent]

\* The record and the browser a first request in session Sid leaves behind
LiveRecord == SessionInfo(WsOf(1), DefaultProfile, FALSE, 1, <<"T", "1">>)

\* What a run of the program can find: no session file, an undecodable one, or
\* the record of an earlier run whose browser is alive
Disks ==
    { [files |-> NoFiles, running |-> {}],
      [files |-> [NoFiles EXCEPT ![Sid] = Corrupt], running |-> {}],
      [files |-> [NoFiles EXCEPT ![Sid] = RecordFile(LiveRecord)], running |-> {1}] }

\* getChromiumExec: the platforms that have an expected path
Supported == {"darwin", "linux"}

\* The executable can be present only where there is an expected path
Init ==
    /\ inv = [p \in Procs |-> Idle]
    /\ \E d \in Disks : files = d.files /\ running = d.running
    /\ goos \in {"linux", "freebsd"}
    /\ chromium \in IF goos \in Supported THEN BOOLEAN ELSE {FALSE}

\* Any of the disks, on a machine on which the browser is installed
InitInstalled ==
    /\ inv = [p \in Procs |-> Idle]
    /\ \E d \in Disks : files = d.files /\ running = d.running
    /\ chromium = TRUE
    /\ goos = "linux"

\* A machine on which the browser is installed and no session was ever started
InitSessions ==
    /\ inv = [p \in Procs |-> Idle]
    /\ files \in {NoFiles, [NoFiles EXCEPT ![Sid] = Corrupt]}
    /\ running = {}
    /\ chromium = TRUE
    /\ goos = "linux"

(* ------------------------------------------------------------------ *)
(* Session store                                                        *)
(* ------------------------------------------------------------------ *)
\* loadSession: the decoded record, or an error for a missing or malformed file
loadSession(sessionID) ==
    IF files[sessionID].kind = "record"
    THEN [err |-> FALSE, info |-> files[sessionID].info]
    ELSE [err |-> TRUE, info |-> NoInfo]

\* saveSession: the file as it is after a successful write
saveSession(sessionID, info) == [files EXCEPT ![sessionID] = RecordFile(info)]

\* removeSession: os.Remove fails on a missing file
removeSession(sessionID) ==
    [err |-> files[sessionID].kind = "absent",
     files |-> [files EXCEPT ![sessionID] = Absent]]

(* ------------------------------------------------------------------ *)
(* main                                                                 *)
(* ------------------------------------------------------------------ *)
\* A new run of the program with a command line
Invoke(p, args) ==
    /\ inv[p].pc = "idle"
    /\ Upd(p, Started(args))
    /\ UNCHANGED <<files, running, chromium, goos>>

\* The process is gone; only the file system and the session browsers remain
Reap(p) ==
    /\ inv[p].pc = "exited"
    /\ Upd(p, Idle)
    /\ UNCHANGED <<files, running, chromium, goos>>

ParseArgs(p) ==
    /\ inv[p].pc = "parseArgs"
    /\ LET r == inv[p]
           parsed == parseArgs(r.args)
       IN  Upd(p, CASE parsed.exit = "help" ->
                        Exit([r EXCEPT !.stdout = Append(@, <<"<help>">>)], 0)
                    [] parsed.exit = "quickstart" ->
                        Exit([r EXCEPT !.stdout = Append(@, <<"<quickstart>">>)], 0)
                    [] OTHER -> [r EXCEPT !.pc = "main", !.config = parsed.config])
    /\ UNCHANGED <<files, running, chromium, goos>>

StopRequiresSession == <<"Error: --stop requires --session <id>", NL>>

\* main with the two tests in the other order: the URL is looked at first
MainUrlFirst(p) ==
    /\ inv[p].pc = "main"
    /\ LET r == inv[p]
           config == r.config
       IN  Upd(p, IF config.URL # <<>>
                  THEN [r EXCEPT !.pc = "ensureChromium"]
                  ELSE IF ~config.StopSession
                  THEN Exit([r EXCEPT !.stdout = Append(@, <<"<help>">>)], 1)
                  ELSE IF config.Session = <<>>
                  THEN Exit([r EXCEPT !.stderr = Append(@, StopRequiresSession)], 1)
                  ELSE [r EXCEPT !.pc = "stopSession"])
    /\ UNCHANGED <<files, running, chromium, goos>>

\* main, lines 249-265: the branch taken on the parsed configuration
Main(p) ==
    /\ inv[p].pc = "main"
    /\ LET r == inv[p]
           config == r.config
       IN  Upd(p, IF config.StopSession
                  THEN IF config.Session = <<>>
                       THEN Exit([r EXCEPT !.stderr = Append(@, StopRequiresSession)], 1)
                       ELSE [r EXCEPT !.pc = "stopSession"]
                  ELSE IF config.URL = <<>>
                       THEN Exit([r EXCEPT !.stdout = Append(@, <<"<help>">>)], 1)
                       ELSE [r EXCEPT !.pc = "ensureChromium"])
    /\ UNCHANGED <<files, running, chromium, goos>>

StopError(msg) == <<"Error stopping session: ">> \o msg \o <<NL>>

NotFound(sessionID) == <<"session '">> \o sessionID \o <<"' not found">>

\* stopSession that goes on to the removal when the record cannot be loaded
StopLoadLenient(p) ==
    /\ inv[p].pc = "stopSession"
    /\ LET r == inv[p]
           id == r.config.Session
           got == loadSession(id)
           r1 == [r EXCEPT !.trace = Append(@, Ev("load", id, 0)), !.loaded = files[id]]
       IN  Upd(p, [r1 EXCEPT !.sessionInfo = got.info,
                             !.pc = IF got.info.PID > 0 THEN "stopSignal"
                                    ELSE "stopRemove"])
    /\ UNCHANGED <<files, running, chromium, goos>>

\* stopSession, lines 285-291
StopLoad(p) ==
    /\ inv[p].pc = "stopSession"
    /\ LET r == inv[p]
           id == r.config.Session
           got == loadSession(id)
           r1 == [r EXCEPT !.trace = Append(@, Ev("load", id, 0)), !.loaded = files[id]]
       IN  Upd(p, IF got.err
                  THEN Exit([r1 EXCEPT !.err = NotFound(id),
                                       !.stderr = Append(@, StopError(NotFound(id)))], 1)
                  ELSE [r1 EXCEPT !.sessionInfo = got.info,
                                  !.pc = IF got.info.PID > 0 THEN "stopSignal"
                                         ELSE "stopRemove"])
    /\ UNCHANGED <<files, running, chromium, goos>>

\* stopSession, lines 292-295: the interrupt, which the browser may outlive
StopSignal(p) ==
    /\ inv[p].pc = "stopSignal"
    /\ LET r == inv[p]
           pid == r.sessionInfo.PID
       IN  /\ Upd(p, [r EXCEPT !.pc = "stopKill",
                               !.trace = Append(@, Ev("signal", <<"interrupt">>, pid))])
           /\ \E dies \in BOOLEAN :
                  running' = IF dies THEN running \ {pid} ELSE running
    /\ UNCHANGED <<files, chromium, goos>>

\* stopSession, line 296
StopKill(p) ==
    /\ inv[p].pc = "stopKill"
    /\ LET r == inv[p]
           pid == r.sessionInfo.PID
       IN  /\ Upd(p, [r EXCEPT !.pc = "stopRemove",
                               !.trace = Append(@, Ev("signal", <<"kill">>, pid))])
           /\ running' = running \ {pid}
    /\ UNCHANGED <<files, chromium, goos>>

Stopped(sessionID) == <<"Session '">> \o sessionID \o <<"' stopped", NL>>

\* stopSession that reports success and leaves the record where it is
StopRemoveKeeps(p) ==
    /\ inv[p].pc = "stopRemove"
    /\ LET r == inv[p]
           id == r.config.Session
           r1 == [r EXCEPT !.trace = Append(@, Ev("remove", id, 0))]
       IN  Upd(p, Exit([r1 EXCEPT !.stdout = Append(@, Stopped(id))], 0))
    /\ UNCHANGED <<files, running, chromium, goos>>

\* stopSession, line 301, and main, lines 254-259
StopRemove(p) ==
    /\ inv[p].pc = "stopRemove"
    /\ LET r == inv[p]
           id == r.config.Session
           rm == removeSession(id)
           r1 == [r EXCEPT !.trace = Append(@, Ev("remove", id, 0))]
       IN  \E ioerr \in BOOLEAN :
              IF rm.err \/ ioerr
              THEN /\ Upd(p, Exit([r1 EXCEPT !.err = <<"remove failed">>,
                                      !.stderr = Append(@, StopError(<<"remove failed">>))], 1))
                   /\ files' = files
              ELSE /\ Upd(p, Exit([r1 EXCEPT !.stdout = Append(@, Stopped(id))], 0))
                   /\ files' = rm.files
    /\ UNCHANGED <<running, chromium, goos>>

(* ------------------------------------------------------------------ *)
(* Browser provisioner                                                  *)
(* ------------------------------------------------------------------ *)
ChromiumError(msg) == <<"Error setting up Chromium: ">> \o msg \o <<NL>>

\* A provisioner that downloads whether the executable is there or not
ensureChromiumAlways(p) ==
    /\ inv[p].pc = "ensureChromium"
    /\ LET r == inv[p] IN
       Upd(p, [r EXCEPT !.pc = "processRequest",
                   !.stdout = @ \o << <<"Chromium not found, downloading...", NL>>,
                                     <<"Chromium downloaded to: <dir>", NL>> >>,
                   !.trace = @ \o <<Ev("mkdir", <<"chromium">>, 0),
                                    Ev("download", <<"chromium">>, 0),
                                    Ev("extract", <<"chromium">>, 0)>>])
    /\ chromium' = TRUE
    /\ UNCHANGED <<files, running, goos>>

\* ensureChromium with downloadChromium and extractZip, and main's handling of
\* its error (lines 268-272).  outcome is where the download procedure ends.
ensureChromium(p) ==
    /\ inv[p].pc = "ensureChromium"
    /\ LET r == inv[p]
           fail(r1, msg) == Exit([r1 EXCEPT !.err = msg,
                                            !.stderr = Append(@, ChromiumError(msg))], 1)
           out1 == Append(r.stdout, <<"Chromium not found, downloading...", NL>>)
           out2 == Append(out1, <<"Downloading Chromium from <url>...", NL>>)
           out3 == Append(out2, <<"Extracting Chromium...", NL>>)
           out4 == Append(out3, <<"Chromium downloaded to: <dir>", NL>>)
           mk == Ev("mkdir", <<"chromium">>, 0)
           dl == Ev("download", <<"chromium">>, 0)
           ex == Ev("extract", <<"chromium">>, 0)
       IN  IF goos \notin Supported
           THEN /\ Upd(p, fail(r, <<"unsupported platform">>))
                /\ chromium' = chromium
           ELSE IF chromium
           THEN /\ Upd(p, [r EXCEPT !.pc = "processRequest"])
                /\ chromium' = chromium
           ELSE \E outcome \in {"mkdir", "download", "extract", "missing", "ok"} :
                CASE outcome = "mkdir" ->
                       /\ Upd(p, fail([r EXCEPT !.stdout = out1],
                                      <<"failed to download Chromium">>))
                       /\ chromium' = FALSE
                  [] outcome = "download" ->
                       /\ Upd(p, fail([r EXCEPT !.stdout = out2,
                                                !.trace = @ \o <<mk, dl>>],
                                      <<"failed to download Chromium">>))
                       /\ chromium' = FALSE
                  [] outcome = "extract" ->
                       /\ Upd(p, fail([r EXCEPT !.stdout = out3,
                                                !.trace = @ \o <<mk, dl, ex>>],
                                      <<"failed to download Chromium">>))
                       /\ chromium' \in BOOLEAN
                  [] outcome = "missing" ->
                       /\ Upd(p, fail([r EXCEPT !.stdout = out3,
                                                !.trace = @ \o <<mk, dl, ex>>],
                                      <<"Chromium executable not found after download">>))
                       /\ chromium' = FALSE
                  [] OTHER ->
                       /\ Upd(p, [r EXCEPT !.pc = "processRequest", !.stdout = out4,
                                           !.trace = @ \o <<mk, dl, ex>>])
                       /\ chromium' = TRUE
    /\ UNCHANGED <<files, running, goos>>

(* ------------------------------------------------------------------ *)
(* Browser driver                                                       *)
(* ------------------------------------------------------------------ *)
\* The context a chromedp.Run is issued under
PlainCtx == "ctx"
TimeoutCtx == "timeoutCtx"
SelectorCtx == "timeoutCtx+10s"

\* A driver operation can succeed only while the browser is alive, the tab
\* context is open and, under the request timeout, the deadline has not passed.
CanSucceed(r, under) ==
    /\ r.tabCtx = "open"
    /\ r.isSession => r.sessionInfo.PID \in running
    /\ under # PlainCtx => r.deadline = "running"

Outcomes(r, under) == IF CanSucceed(r, under) THEN {TRUE, FALSE} ELSE {FALSE}

\* chromedp.Run recorded in the history
Ran(r, name, under) == [r EXCEPT !.trace = Append(@, Ev("op", <<name, under>>, 0))]

\* return from processRequest; the deferred timeoutCancel of line 681 runs
\* when the timeout was installed
Return(r, result, err) ==
    LET r1 == [r EXCEPT !.pc = "returned", !.result = result, !.err = err] IN
    IF r.deadline = "unset" THEN r1
    ELSE [r1 EXCEPT !.deadline = "cancelled",
                    !.trace = Append(@, Ev("timeoutCancel", <<"defer">>, 0))]

Fatal(r, msg) == Return(r, <<>>, msg)

\* The step that follows, by the options of the configuration
AfterShot(r) ==
    IF r.config.AfterSubmitURL # <<>> THEN "afterNav" ELSE "outerHTML"

AfterJs(r) ==
    IF r.config.ScreenshotPath # <<>> THEN "screenshot" ELSE AfterShot(r)

AfterForm(r) ==
    IF r.config.JSCode # <<>> THEN "jsLoc" ELSE AfterJs(r)

AfterLiveView(r) ==
    IF r.config.FormID # <<>> /\ Len(r.config.Inputs) > 0 THEN "formFill"
    ELSE AfterForm(r)

\* The window size given to the browser (lines 399-402 and 669-671): none
\* without --window-size
WindowOption(config) ==
    IF config.WindowSize # <<>> THEN parseWindowSize(config.WindowSize) ELSE <<>>

\* processRequest, lines 592-600 and the one-shot setup of lines 641-677
PrStart(p) ==
    /\ inv[p].pc = "processRequest"
    /\ LET r == inv[p]
           isSession == r.config.Session # <<>>
           r1 == [r EXCEPT !.baseURL = ensureProtocol(r.config.URL),
                           !.isSession = isSession]
       IN  Upd(p, IF isSession
                  THEN [r1 EXCEPT !.pc = "loadSession"]
                  ELSE [r1 EXCEPT !.pc = "timeout", !.alloc = "open", !.tabCtx = "open",
                            !.window = WindowOption(r.config),
                            !.trace = @ \o <<Ev("mkdir", r.config.Profile, 0),
                                             Ev("newContext", <<>>, 0)>>])
    /\ UNCHANGED <<files, running, chromium, goos>>

\* A request that starts a new browser when the recorded one is not alive
SessionLoadRestart(p) ==
    /\ inv[p].pc = "loadSession"
    /\ LET r == inv[p]
           id == r.config.Session
           got == loadSession(id)
           r1 == [r EXCEPT !.trace = Append(@, Ev("load", id, 0)), !.loaded = files[id]]
       IN  Upd(p, IF ~got.err /\ got.info.PID \in running
                  THEN [r1 EXCEPT !.sessionInfo = got.info, !.pc = "connect"]
                  ELSE [r1 EXCEPT !.pc = "startSessionBrowser"])
    /\ UNCHANGED <<files, running, chromium, goos>>

\* processRequest, lines 602-609
SessionLoad(p) ==
    /\ inv[p].pc = "loadSession"
    /\ LET r == inv[p]
           id == r.config.Session
           got == loadSession(id)
           r1 == [r EXCEPT !.trace = Append(@, Ev("load", id, 0)), !.loaded = files[id]]
       IN  Upd(p, IF ~got.err
                  THEN [r1 EXCEPT !.sessionInfo = got.info, !.pc = "connect",
                            !.stderr = Append(@, <<"Connecting to session '">> \o id
                                                 \o <<"'...", NL>>)]
                  ELSE [r1 EXCEPT !.pc = "startSessionBrowser",
                            !.stderr = Append(@, <<"Starting new session '">> \o id
                                                 \o <<"'...", NL>>)])
    /\ UNCHANGED <<files, running, chromium, goos>>

\* startSessionBrowser, lines 364-417: the profile directory and cmd.Start
startSessionBrowser(p) ==
    /\ inv[p].pc = "startSessionBrowser"
    /\ LET r == inv[p]
           r1 == [r EXCEPT !.trace = Append(@, Ev("mkdir", r.config.Profile, 0)),
                           !.window = WindowOption(r.config)]
       IN  \/ /\ Upd(p, Fatal(r1, <<"failed to start browser">>))
              /\ UNCHANGED running
           \/ \E pid \in (1..MaxLaunch) \ running :
              /\ Upd(p, [r1 EXCEPT !.pc = "waitForBrowserReady", !.launched = pid,
                             !.trace = Append(@, Ev("launch", <<>>, pid))])
              /\ running' = running \cup {pid}
    /\ UNCHANGED <<files, chromium, goos>>

\* startSessionBrowser, lines 420-431, with waitForBrowserReady
waitForBrowserReady(p) ==
    /\ inv[p].pc = "waitForBrowserReady"
    /\ LET r == inv[p]
           pid == r.launched
       IN  \/ /\ pid \in running
              /\ Upd(p, [r EXCEPT !.pc = "connect",
                             !.sessionInfo = SessionInfo(WsOf(pid), r.config.Profile,
                                                         r.config.Headful, pid, <<>>)])
              /\ UNCHANGED running
           \/ /\ Upd(p, Fatal([r EXCEPT !.trace = Append(@, Ev("signal", <<"kill">>, pid))],
                              <<"browser failed to start">>))
              /\ running' = running \ {pid}
    /\ UNCHANGED <<files, chromium, goos>>

\* A connection that opens a new tab whatever the record says
ConnectFresh(p) ==
    /\ inv[p].pc = "connect"
    /\ LET r == inv[p] IN
       Upd(p, [r EXCEPT !.alloc = "open", !.tabCtx = "open", !.pc = "init",
                   !.trace = Append(@, Ev("newContext", <<>>, 0))])
    /\ UNCHANGED <<files, running, chromium, goos>>

\* processRequest, lines 617-627: the remote allocator and the tab context
Connect(p) ==
    /\ inv[p].pc = "connect"
    /\ LET r == inv[p]
           target == r.sessionInfo.TargetID
       IN  Upd(p, [r EXCEPT !.alloc = "open", !.tabCtx = "open",
                       !.pc = IF target = <<>> THEN "init" ELSE "timeout",
                       !.trace = Append(@, IF target # <<>>
                                           THEN Ev("attach", target, 0)
                                           ELSE Ev("newContext", <<>>, 0))])
    /\ UNCHANGED <<files, running, chromium, goos>>

\* processRequest, lines 632-635: the round trip that creates the tab
InitTab(p) ==
    /\ inv[p].pc = "init"
    /\ LET r == Ran(inv[p], "init", PlainCtx) IN
       \E ok \in Outcomes(inv[p], PlainCtx) :
       \E tab \in IF ok THEN TabIds ELSE {<<>>} :
           Upd(p, IF ok
                  THEN [r EXCEPT !.pc = "saveSession", !.sessionInfo.TargetID = tab]
                  ELSE Fatal(r, <<"failed to initialize browser context">>))
    /\ UNCHANGED <<files, running, chromium, goos>>

\* A request that goes on without writing the record
SessionSaveSkipped(p) ==
    /\ inv[p].pc = "saveSession"
    /\ Upd(p, [inv[p] EXCEPT !.pc = "timeout"])
    /\ UNCHANGED <<files, running, chromium, goos>>

\* processRequest, lines 636-638
SessionSave(p) ==
    /\ inv[p].pc = "saveSession"
    /\ LET r == inv[p]
           id == r.config.Session
       IN  \E ok \in BOOLEAN :
              IF ok
              THEN /\ Upd(p, [r EXCEPT !.pc = "timeout",
                                  !.trace = Append(@, Ev("save", id, 0))])
                   /\ files' = saveSession(id, r.sessionInfo)
              ELSE /\ Upd(p, Fatal(r, <<"failed to save session">>))
                   /\ files' = files
    /\ UNCHANGED <<running, chromium, goos>>

\* A request that goes to the page without injecting the stealth script
InstallTimeoutThenNavigate(p) ==
    /\ inv[p].pc = "timeout"
    /\ Upd(p, [inv[p] EXCEPT !.deadline = "running", !.pc = "navigate"])
    /\ UNCHANGED <<files, running, chromium, goos>>

\* processRequest, lines 680-738: the request timeout and the event listener
InstallTimeout(p) ==
    /\ inv[p].pc = "timeout"
    /\ LET r == inv[p] IN
       Upd(p, [r EXCEPT !.deadline = "running",
                   !.pc = IF r.config.Stealth THEN "stealth" ELSE "navigate"])
    /\ UNCHANGED <<files, running, chromium, goos>>

\* processRequest, lines 741-750
Stealth(p) ==
    /\ inv[p].pc = "stealth"
    /\ LET r == Ran(inv[p], "addScript", TimeoutCtx) IN
       \E ok \in Outcomes(inv[p], TimeoutCtx) :
           Upd(p, IF ok THEN [r EXCEPT !.pc = "navigate"]
                  ELSE [r EXCEPT !.pc = "navigate",
                            !.stderr = Append(@, <<"Warning: Could not inject stealth script",
                                                   NL>>)])
    /\ UNCHANGED <<files, running, chromium, goos>>

\* processRequest, lines 753-756
Navigate(p) ==
    /\ inv[p].pc = "navigate"
    /\ LET r == Ran(inv[p], "navigate", TimeoutCtx) IN
       \E ok \in Outcomes(inv[p], TimeoutCtx) :
           Upd(p, IF ok THEN [r EXCEPT !.pc = "waitReady", !.loc = 0]
                  ELSE Fatal(r, <<"could not navigate to ">> \o r.baseURL))
    /\ UNCHANGED <<files, running, chromium, goos>>

\* processRequest, lines 759-762
WaitReady(p) ==
    /\ inv[p].pc = "waitReady"
    /\ LET r == Ran(inv[p], "waitReady", TimeoutCtx) IN
       \E ok \in Outcomes(inv[p], TimeoutCtx) :
           Upd(p, IF ok THEN [r EXCEPT !.pc = "detect"]
                  ELSE Fatal(r, <<"page did not load">>))
    /\ UNCHANGED <<files, running, chromium, goos>>

\* processRequest, lines 765-769
Detect(p) ==
    /\ inv[p].pc = "detect"
    /\ LET r == Ran(inv[p], "detect", TimeoutCtx) IN
       \E ok \in Outcomes(inv[p], TimeoutCtx) :
       \E found \in IF ok THEN BOOLEAN ELSE {FALSE} :
           LET r1 == [r EXCEPT !.isLiveView = found] IN
           Upd(p, [r1 EXCEPT !.pc = IF found THEN "liveView" ELSE AfterLiveView(r1)])
    /\ UNCHANGED <<files, running, chromium, goos>>

\* processRequest, lines 771-780, with waitForSelector
LiveViewWait(p) ==
    /\ inv[p].pc = "liveView"
    /\ LET r == Ran(inv[p], "waitVisible", SelectorCtx)
           said == <<"Detected Phoenix LiveView page, waiting for connection...", NL>>
       IN
       \E ok \in Outcomes(inv[p], SelectorCtx) :
           Upd(p, [r EXCEPT !.pc = AfterLiveView(r),
                       !.stdout = @ \o <<said,
                           IF ok THEN <<"Phoenix LiveView connected", NL>>
                           ELSE <<"Warning: Could not detect LiveView connection", NL>>>>])
    /\ UNCHANGED <<files, running, chromium, goos>>

(* ------------------------------------------------------------------ *)
(* handleForm                                                           *)
(* ------------------------------------------------------------------ *)
FormError(msg) == <<"error handling form: ">> \o msg

\* handleForm, lines 931-942: one input per step, in list order; the history
\* names the input of the fill
FormFill(p) ==
    /\ inv[p].pc = "formFill"
    /\ LET r0 == Ran(inv[p], "fill", TimeoutCtx)
           r == [r0 EXCEPT !.trace =
                    Append(@, Ev("fill", r0.config.Inputs[r0.formIdx].Name, r0.formIdx))]
           last == r.formIdx = Len(r.config.Inputs)
       IN
       \E ok \in Outcomes(inv[p], TimeoutCtx) :
           Upd(p, IF ok
                  THEN [r EXCEPT !.formIdx = @ + 1,
                            !.pc = IF ~last THEN "formFill"
                                   ELSE IF r.isLiveView THEN "formEnterLiveView"
                                   ELSE "formCount"]
                  ELSE Fatal(r, FormError(<<"could not fill input ">>
                                          \o r.config.Inputs[r.formIdx].Name)))
    /\ UNCHANGED <<files, running, chromium, goos>>

\* handleForm, lines 946-956
FormEnterLiveView(p) ==
    /\ inv[p].pc = "formEnterLiveView"
    /\ LET r0 == Ran(inv[p], "sendKeys", TimeoutCtx)
           r == [r0 EXCEPT !.stdout =
                     Append(@, <<"Waiting for Phoenix LiveView navigation...", NL>>)]
       IN
       \E ok \in Outcomes(inv[p], TimeoutCtx) :
       \E to \in IF ok THEN {0, 1} ELSE {r.loc} :
           Upd(p, IF ok
                  THEN [r EXCEPT !.pc = AfterForm(r), !.loc = to,
                            !.stdout = Append(@, <<"LiveView form submitted", NL>>)]
                  ELSE Fatal(r, FormError(<<"could not submit LiveView form">>)))
    /\ UNCHANGED <<files, running, chromium, goos>>

\* handleForm, lines 959-965: the first count of submit controls, unused
FormCount(p) ==
    /\ inv[p].pc = "formCount"
    /\ LET r == Ran(inv[p], "count", TimeoutCtx) IN
       \E ok \in Outcomes(inv[p], TimeoutCtx) :
           Upd(p, [r EXCEPT !.pc = "formSubmitCount"])
    /\ UNCHANGED <<files, running, chromium, goos>>

\* A form step that clicks whatever the count of submit controls is
FormSubmitCountClicks(p) ==
    /\ inv[p].pc = "formSubmitCount"
    /\ LET r == Ran(inv[p], "count", TimeoutCtx) IN
       \E ok \in Outcomes(inv[p], TimeoutCtx) :
       \E n \in IF ok THEN {0, 1} ELSE {0} :
           Upd(p, [r EXCEPT !.submitCount = n, !.pc = "formClick"])
    /\ UNCHANGED <<files, running, chromium, goos>>

\* handleForm, lines 967-971
FormSubmitCount(p) ==
    /\ inv[p].pc = "formSubmitCount"
    /\ LET r == Ran(inv[p], "count", TimeoutCtx) IN
       \E ok \in Outcomes(inv[p], TimeoutCtx) :
       \E n \in IF ok THEN {0, 1} ELSE {0} :
           Upd(p, [r EXCEPT !.submitCount = n,
                       !.pc = IF n > 0 THEN "formClick" ELSE "formEnter"])
    /\ UNCHANGED <<files, running, chromium, goos>>

\* handleForm, lines 973-977 and 984
FormClick(p) ==
    /\ inv[p].pc = "formClick"
    /\ LET r == Ran(inv[p], "click", TimeoutCtx) IN
       \E ok \in Outcomes(inv[p], TimeoutCtx) :
       \E to \in IF ok THEN {0, 1} ELSE {r.loc} :
           Upd(p, IF ok
                  THEN [r EXCEPT !.pc = AfterForm(r), !.loc = to,
                            !.stdout = Append(@, <<"Form submitted", NL>>)]
                  ELSE Fatal(r, FormError(<<"could not click submit button">>)))
    /\ UNCHANGED <<files, running, chromium, goos>>

\* handleForm, lines 978-984
FormEnter(p) ==
    /\ inv[p].pc = "formEnter"
    /\ LET r == Ran(inv[p], "sendKeys", TimeoutCtx) IN
       \E ok \in Outcomes(inv[p], TimeoutCtx) :
       \E to \in IF ok THEN {0, 1} ELSE {r.loc} :
           Upd(p, IF ok
                  THEN [r EXCEPT !.pc = AfterForm(r), !.loc = to,
                            !.stdout = Append(@, <<"Form submitted", NL>>)]
                  ELSE Fatal(r, FormError(<<"could not submit form">>)))
    /\ UNCHANGED <<files, running, chromium, goos>>

(* ------------------------------------------------------------------ *)
(* User script, screenshot, post-submit page                            *)
(* ------------------------------------------------------------------ *)
\* processRequest, lines 793-794: the location before the script; an error
\* leaves currentURL empty (-1)
ScriptLocation(p) ==
    /\ inv[p].pc = "jsLoc"
    /\ LET r == Ran(inv[p], "location", TimeoutCtx) IN
       \E ok \in Outcomes(inv[p], TimeoutCtx) :
           Upd(p, [r EXCEPT !.pc = "jsEval", !.currentURL = IF ok THEN r.loc ELSE -1])
    /\ UNCHANGED <<files, running, chromium, goos>>

\* A request that gives up when the user script fails
ScriptEvaluateFatal(p) ==
    /\ inv[p].pc = "jsEval"
    /\ LET r == Ran(inv[p], "evaluate", TimeoutCtx) IN
       \E ok \in Outcomes(inv[p], TimeoutCtx) :
       \E to \in IF ok THEN {0, 1} ELSE {r.loc} :
           Upd(p, IF ok THEN [r EXCEPT !.pc = "jsAfter", !.loc = to]
                  ELSE Fatal(r, <<"JavaScript execution failed">>))
    /\ UNCHANGED <<files, running, chromium, goos>>

\* processRequest, lines 796-800
ScriptEvaluate(p) ==
    /\ inv[p].pc = "jsEval"
    /\ LET r == Ran(inv[p], "evaluate", TimeoutCtx) IN
       \E ok \in Outcomes(inv[p], TimeoutCtx) :
       \E to \in IF ok THEN {0, 1} ELSE {r.loc} :
           Upd(p, IF ok THEN [r EXCEPT !.pc = "jsAfter", !.loc = to]
                  ELSE [r EXCEPT !.pc = "jsAfter",
                            !.stdout = Append(@, <<"Warning: JavaScript execution failed",
                                                   NL>>)])
    /\ UNCHANGED <<files, running, chromium, goos>>

\* processRequest, lines 803-833 up to the readiness wait: the fixed delay, the
\* location after the script and the comparison
ScriptAfter(p) ==
    /\ inv[p].pc = "jsAfter"
    /\ LET r == Ran(inv[p], "location", TimeoutCtx) IN
       \E ok \in Outcomes(inv[p], TimeoutCtx) :
           LET newURL == IF ok THEN r.loc ELSE -1
               changed == newURL # r.currentURL
               r1 == [r EXCEPT !.newURL = newURL]
           IN  Upd(p, IF r.isLiveView
                      THEN [r1 EXCEPT !.pc = AfterJs(r),
                                !.stdout = @ \o
                                   <<<<"Waiting for Phoenix LiveView navigation...", NL>>,
                                     IF changed
                                     THEN <<"URL changed, waiting for page to stabilize...", NL>>
                                     ELSE <<"Info: No navigation detected (in-place LiveView update)", NL>>>>]
                      ELSE [r1 EXCEPT !.pc = IF changed THEN "jsWait" ELSE AfterJs(r),
                                !.stdout = @ \o
                                   <<<<"Waiting for page navigation...", NL>>,
                                     IF changed
                                     THEN <<"Navigation detected, waiting for page load...", NL>>
                                     ELSE <<"Info: No navigation detected (page update without URL change)", NL>>>>])
    /\ UNCHANGED <<files, running, chromium, goos>>

\* processRequest, lines 824-829
ScriptWait(p) ==
    /\ inv[p].pc = "jsWait"
    /\ LET r == Ran(inv[p], "waitReady", TimeoutCtx) IN
       \E ok \in Outcomes(inv[p], TimeoutCtx) :
           Upd(p, [r EXCEPT !.pc = AfterJs(r),
                       !.stdout = Append(@, IF ok THEN <<"Page load completed", NL>>
                                            ELSE <<"Warning: Page load wait timed out", NL>>)])
    /\ UNCHANGED <<files, running, chromium, goos>>

\* processRequest, lines 837-848: the capture and the file write
Screenshot(p) ==
    /\ inv[p].pc = "screenshot"
    /\ LET r == Ran(inv[p], "screenshot", TimeoutCtx) IN
       \E ok \in Outcomes(inv[p], TimeoutCtx) :
       \E written \in IF ok THEN BOOLEAN ELSE {FALSE} :
           Upd(p, IF ~ok THEN Fatal(r, <<"error taking screenshot">>)
                  ELSE IF ~written THEN Fatal(r, <<"error saving screenshot">>)
                  ELSE [r EXCEPT !.pc = AfterShot(r),
                            !.trace = Append(@, Ev("writeFile", r.config.ScreenshotPath, 0)),
                            !.stdout = Append(@, <<"Screenshot saved to ">>
                                                 \o r.config.ScreenshotPath \o <<NL>>)])
    /\ UNCHANGED <<files, running, chromium, goos>>

\* processRequest, lines 851-856
AfterSubmitNavigate(p) ==
    /\ inv[p].pc = "afterNav"
    /\ LET r0 == Ran(inv[p], "navigate", TimeoutCtx)
           r == [r0 EXCEPT !.stdout = Append(@, <<"Navigating to after-submit URL: ">>
                                                \o r0.config.AfterSubmitURL \o <<NL>>)]
       IN
       \E ok \in Outcomes(inv[p], TimeoutCtx) :
           Upd(p, IF ok THEN [r EXCEPT !.pc = "afterWait", !.loc = 1]
                  ELSE Fatal(r, <<"could not navigate to after-submit URL">>))
    /\ UNCHANGED <<files, running, chromium, goos>>

\* processRequest, line 857: the result is dropped
AfterSubmitWait(p) ==
    /\ inv[p].pc = "afterWait"
    /\ LET r == Ran(inv[p], "waitReady", TimeoutCtx) IN
       \E ok \in Outcomes(inv[p], TimeoutCtx) :
           Upd(p, [r EXCEPT !.pc = "outerHTML"])
    /\ UNCHANGED <<files, running, chromium, goos>>

(* ------------------------------------------------------------------ *)
(* Capture, conversion and assembly                                     *)
(* ------------------------------------------------------------------ *)
\* A capture that converts whatever the raw-output flag says
OuterHTMLConverted(p) ==
    /\ inv[p].pc = "outerHTML"
    /\ LET r == Ran(inv[p], "outerHTML", TimeoutCtx) IN
       \E ok \in Outcomes(inv[p], TimeoutCtx) :
           Upd(p, IF ~ok THEN Fatal(r, <<"could not get page content">>)
                  ELSE [r EXCEPT !.content = PageHTML, !.pc = "convert"])
    /\ UNCHANGED <<files, running, chromium, goos>>

\* processRequest, lines 861-870
OuterHTML(p) ==
    /\ inv[p].pc = "outerHTML"
    /\ LET r == Ran(inv[p], "outerHTML", TimeoutCtx) IN
       \E ok \in Outcomes(inv[p], TimeoutCtx) :
           Upd(p, IF ~ok THEN Fatal(r, <<"could not get page content">>)
                  ELSE IF r.config.RawFlag THEN Return([r EXCEPT !.content = PageHTML],
                                                       PageHTML, <<>>)
                  ELSE [r EXCEPT !.content = PageHTML, !.pc = "convert"])
    /\ UNCHANGED <<files, running, chromium, goos>>

HeaderRule == Repeat("=", 26)

\* A header without its rules
HeaderBare(baseURL) == baseURL \o <<NL, NL>>

Header(baseURL) == HeaderRule \o <<NL>> \o baseURL \o <<NL>> \o HeaderRule \o <<NL, NL>>

TruncationNotice(limit, full) ==
    <<NL, NL, "... (output truncated after ">> \o Itoa(limit)
        \o <<" chars, full content was ">> \o Itoa(full) \o <<" chars)">>

\* processRequest, lines 882-884
Truncate(markdown, text, limit) ==
    IF Len(markdown) > limit
    THEN SubSeq(markdown, 1, limit) \o TruncationNotice(limit, Len(text))
    ELSE markdown

\* processRequest, lines 873-887: html2text is the library's; the model lets it
\* return any text of texts, or fail
ConvertFrom(p, texts) ==
    /\ inv[p].pc = "convert"
    /\ LET r == inv[p] IN
       \/ Upd(p, Fatal(r, <<"could not convert HTML to text">>))
       \/ \E text \in texts :
            LET markdown == Truncate(cleanMarkdown(text), text, r.config.TruncateAfter) IN
            Upd(p, [r EXCEPT !.pc = "consoleLock", !.text = text, !.markdown = markdown,
                        !.result = Header(r.baseURL) \o markdown])
    /\ UNCHANGED <<files, running, chromium, goos>>

Convert(p) == ConvertFrom(p, Texts)

\* A final read that does not take the mutex
ConsoleLockSkipped(p) ==
    /\ inv[p].pc = "consoleLock"
    /\ Upd(p, [inv[p] EXCEPT !.pc = "consoleRead"])
    /\ UNCHANGED <<files, running, chromium, goos>>

\* processRequest, line 890
ConsoleLock(p) ==
    /\ inv[p].pc = "consoleLock"
    /\ inv[p].consoleMu = "free"
    /\ Upd(p, [inv[p] EXCEPT !.pc = "consoleRead", !.consoleMu = "main"])
    /\ UNCHANGED <<files, running, chromium, goos>>

ConsoleRule == Repeat("=", 50)

ConsoleSection(messages) ==
    IF Len(messages) > 0
    THEN <<NL, NL>> \o ConsoleRule \o <<NL, "CONSOLE OUTPUT:", NL>> \o ConsoleRule \o <<NL>>
         \o Join([k \in 1..Len(messages) |-> Line(messages[k])], <<>>)
    ELSE <<>>

\* The end of a request that tears the browser down in session mode too
ConsoleReadTeardown(p) ==
    /\ inv[p].pc = "consoleRead"
    /\ LET r == inv[p]
           result == r.result \o ConsoleSection(r.consoleMessages)
       IN  Upd(p, [r EXCEPT !.consoleMu = "free", !.read = r.consoleMessages,
                       !.result = result, !.pc = "blank"])
    /\ UNCHANGED <<files, running, chromium, goos>>

\* processRequest, lines 891-904 and, in session mode, the return of line 919
ConsoleRead(p) ==
    /\ inv[p].pc = "consoleRead"
    /\ LET r == inv[p]
           result == r.result \o ConsoleSection(r.consoleMessages)
           r1 == [r EXCEPT !.consoleMu = "free", !.read = r.consoleMessages,
                           !.result = result]
       IN  Upd(p, IF r.isSession THEN Return(r1, result, <<>>)
                  ELSE [r1 EXCEPT !.pc = "blank"])
    /\ UNCHANGED <<files, running, chromium, goos>>

\* processRequest, lines 908-909: the result is dropped
Blank(p) ==
    /\ inv[p].pc = "blank"
    /\ LET r == Ran(inv[p], "navigate", TimeoutCtx) IN
       \E ok \in Outcomes(inv[p], TimeoutCtx) :
           Upd(p, [r EXCEPT !.pc = "cancel"])
    /\ UNCHANGED <<files, running, chromium, goos>>

\* processRequest, lines 912-919
Cancel(p) ==
    /\ inv[p].pc = "cancel"
    /\ LET r == inv[p] IN
       Upd(p, Return([r EXCEPT !.tabCtx = "cancelled", !.alloc = "cancelled",
                          !.trace = @ \o <<Ev("timeoutCancel", <<>>, 0),
                                           Ev("cancel", <<>>, 0),
                                           Ev("allocCancel", <<>>, 0)>>],
                     r.result, <<>>))
    /\ UNCHANGED <<files, running, chromium, goos>>

\* An end of main that prints the result before it looks at the error
MainFinishPrintsFirst(p) ==
    /\ inv[p].pc = "returned"
    /\ LET r == [inv[p] EXCEPT !.stdout = Append(@, Line(inv[p].result))] IN
       Upd(p, IF r.err # <<>>
              THEN Exit([r EXCEPT !.stderr = Append(@, <<"Error processing request: ">>
                                                   \o r.err \o <<NL>>)], 1)
              ELSE Exit(r, 0))
    /\ UNCHANGED <<files, running, chromium, goos>>

\* main, lines 276-281
MainFinish(p) ==
    /\ inv[p].pc = "returned"
    /\ LET r == inv[p] IN
       Upd(p, IF r.err # <<>>
              THEN Exit([r EXCEPT !.stderr = Append(@, <<"Error processing request: ">>
                                                   \o r.err \o <<NL>>)], 1)
              ELSE Exit([r EXCEPT !.stdout = Append(@, Line(r.result))], 0))
    /\ UNCHANGED <<files, running, chromium, goos>>

(* ------------------------------------------------------------------ *)
(* Console listener                                                     *)
(* ------------------------------------------------------------------ *)
ErrorPrefix == <<"[", "E", "R", "R", "O", "R", "]", " ">>

\* A listener that keeps the event type as the page gave it
FormattedAsGiven(ev) ==
    IF ev.kind = "console"
    THEN LET msgParts == SelectSeq(ev.parts, LAMBDA val : val # <<>>)
         IN  IF Len(msgParts) > 0
             THEN <<"[">> \o ev.type \o <<"]", " ">> \o Join(msgParts, <<" ">>)
             ELSE <<>>
    ELSE IF ~ev.nil THEN ErrorPrefix \o ev.type ELSE <<>>

\* The string the listener appends for an event, <<>> when it appends nothing
Formatted(ev) ==
    IF ev.kind = "console"
    THEN LET level == ToUpper(ev.type)
             msgParts == SelectSeq(ev.parts, LAMBDA val : val # <<>>)
         IN  IF Len(msgParts) > 0
             THEN <<"[">> \o level \o <<"]", " ">> \o Join(msgParts, <<" ">>)
             ELSE <<>>
    ELSE IF ~ev.nil THEN ErrorPrefix \o ev.type ELSE <<>>

\* The listener of lines 689-738 is called with an event and takes the mutex;
\* at most n events are delivered in a run
ListenerLockUpTo(p, ev, n) ==
    /\ inv[p].deadline = "running"
    /\ inv[p].events < n
    /\ inv[p].cb = NoEvent
    /\ inv[p].consoleMu = "free"
    /\ Upd(p, [inv[p] EXCEPT !.consoleMu = "listener", !.cb = ev, !.events = @ + 1])
    /\ UNCHANGED <<files, running, chromium, goos>>

ListenerLock(p, ev) == ListenerLockUpTo(p, ev, MaxEvents)

\* ... appends and, by its deferred Unlock, releases the mutex
ListenerAppend(p) ==
    /\ inv[p].cb # NoEvent
    /\ inv[p].pc # "exited"
    /\ LET r == inv[p]
           msg == Formatted(r.cb)
       IN  Upd(p, [r EXCEPT !.consoleMu = "free", !.cb = NoEvent,
                       !.consoleMessages = IF msg # <<>> THEN Append(@, msg) ELSE @])
    /\ UNCHANGED <<files, running, chromium, goos>>

(* ------------------------------------------------------------------ *)
(* Environment                                                          *)
(* ------------------------------------------------------------------ *)
\* The 60 seconds of the request timeout pass
Expire(p) ==
    /\ inv[p].deadline = "running"
    /\ Upd(p, [inv[p] EXCEPT !.deadline = "expired"])
    /\ UNCHANGED <<files, running, chromium, goos>>

\* A session browser exits on its own
BrowserExits(pid) ==
    /\ pid \in running
    /\ running' = running \ {pid}
    /\ UNCHANGED <<inv, files, chromium, goos>>

(* ------------------------------------------------------------------ *)
(* Specifications                                                       *)
(* ------------------------------------------------------------------ *)
Cli(p) == ParseArgs(p) \/ Main(p) \/ ensureChromium(p) \/ MainFinish(p)

Stop(p) == StopLoad(p) \/ StopSignal(p) \/ StopKill(p) \/ StopRemove(p)

Session(p) ==
    \/ SessionLoad(p) \/ startSessionBrowser(p) \/ waitForBrowserReady(p)
    \/ Connect(p) \/ InitTab(p) \/ SessionSave(p)

Pipeline(p) ==
    \/ PrStart(p) \/ InstallTimeout(p)
    \/ Navigate(p) \/ WaitReady(p) \/ Detect(p) \/ LiveViewWait(p)
    \/ OuterHTML(p) \/ Convert(p) \/ ConsoleLock(p) \/ ConsoleRead(p)
    \/ Blank(p) \/ Cancel(p)

Options(p) ==
    \/ Stealth(p)
    \/ FormFill(p) \/ FormEnterLiveView(p) \/ FormCount(p) \/ FormSubmitCount(p)
    \/ FormClick(p) \/ FormEnter(p)
    \/ ScriptLocation(p) \/ ScriptEvaluate(p) \/ ScriptAfter(p) \/ ScriptWait(p)
    \/ Screenshot(p) \/ AfterSubmitNavigate(p) \/ AfterSubmitWait(p)

Listener(p) ==
    \/ \E ev \in ConsoleEvents : ListenerLock(p, ev)
    \/ ListenerAppend(p)

Step(p) == Cli(p) \/ Stop(p) \/ Session(p) \/ Pipeline(p) \/ Options(p) \/ Expire(p)

\* One run of the program, on any command line
Next ==
    \E p \in SeqProcs :
        \/ \E args \in ArgLists : Invoke(p, args)
        \/ Step(p)

Spec == Init /\ [][Next]_vars

\* The program is run again and again, one run at a time, on the command
\* lines of a session; a session browser may exit on its own
NextSessions ==
    \/ \E p \in SeqProcs :
          \/ \E args \in SessionArgLists : Invoke(p, args)
          \/ Cli(p) \/ Stop(p) \/ Session(p) \/ Pipeline(p) \/ Expire(p)
          \/ Reap(p)
    \/ \E pid \in 1..MaxLaunch : BrowserExits(pid)

SpecSessions == InitSessions /\ [][NextSessions]_vars

\* One run of the program up to the start of the browser, on the command
\* lines that exercise the parser
NextParse ==
    \E p \in SeqProcs :
        \/ \E args \in ParseArgLists : Invoke(p, args)
        \/ ParseArgs(p) \/ Main(p) \/ ensureChromium(p) \/ PrStart(p)
        \/ SessionLoad(p) \/ startSessionBrowser(p) \/ MainFinish(p)

SpecParse == InitSessions /\ [][NextParse]_vars

\* One run of a request with any of the options of the pipeline
NextPipeline ==
    \E p \in SeqProcs :
        \/ \E args \in PipelineArgLists : Invoke(p, args)
        \/ Cli(p) \/ Session(p) \/ Pipeline(p) \/ Options(p) \/ Expire(p)

SpecPipeline == InitInstalled /\ [][NextPipeline]_vars

\* One plain request up to the cleanup of the converted text, on every text
\* of CleanTexts
NextClean ==
    \E p \in SeqProcs :
        \/ Invoke(p, <<UrlHttp>>)
        \/ ParseArgs(p) \/ Main(p) \/ ensureChromium(p) \/ PrStart(p)
        \/ InstallTimeout(p) \/ Navigate(p) \/ WaitReady(p) \/ Detect(p)
        \/ LiveViewWait(p) \/ OuterHTML(p) \/ ConvertFrom(p, CleanTexts)

SpecClean == InitSessions /\ [][NextClean]_vars

\* One request, one-shot or in a session, during which the page delivers up
\* to MaxAppends console events
NextMutex ==
    \E p \in SeqProcs :
        \/ \E args \in SessionArgLists : Invoke(p, args)
        \/ Cli(p) \/ Stop(p) \/ Session(p) \/ Pipeline(p)
        \/ \E ev \in ConsoleEvents : ListenerLockUpTo(p, ev, MaxAppends)
        \/ ListenerAppend(p)

SpecMutex == InitInstalled /\ [][NextMutex]_vars

\* Two runs of the program at the same time, each a raw request of the
\* session or its stop, their steps interleaved in any order
NextRace ==
    \E p \in Procs :
        \/ \E args \in { <<UrlHttp, Flag("session"), Sid, Flag("raw")>>,
                          <<Flag("stop"), Flag("session"), Sid>> } : Invoke(p, args)
        \/ Cli(p) \/ Stop(p) \/ Session(p)
        \/ PrStart(p) \/ InstallTimeout(p) \/ Navigate(p) \/ WaitReady(p)
        \/ Detect(p) \/ LiveViewWait(p) \/ OuterHTML(p)

SpecRace == InitInstalled /\ [][NextRace]_vars

\* One run of the program during which the page's console events arrive
NextConsole ==
    \E p \in SeqProcs :
        \/ \E args \in ConsoleArgLists : Invoke(p, args)
        \/ Cli(p) \/ Stop(p) \/ Session(p) \/ Pipeline(p) \/ Options(p)
        \/ Listener(p)

SpecConsole == InitInstalled /\ [][NextConsole]_vars

(* ------------------------------------------------------------------ *)
(* Properties                                                           *)
(* ------------------------------------------------------------------ *)
\* The entries of kind k in the history of invocation r, in order
EventsOf(r, k) == SelectSeq(r.trace, LAMBDA e : e.k = k)

Did(r, k) == Len(EventsOf(r, k)) > 0

\* A request in session mode that has read the session file
SessionRequest(r) == r.isSession /\ Did(r, "load")

\* A stop that has read the session file
StopCall(r) == r.config.StopSession /\ Did(r, "load")

HasRecord(file) == file.kind = "record"

HasTab(file) == HasRecord(file) /\ file.info.TargetID # <<>>

\* The tab contexts an invocation made: attached to a tab, or of a new tab
TabContexts(r) == SelectSeq(r.trace, LAMBDA e : e.k \in {"attach", "newContext"})

\* C1. A record that holds a tab id keeps it: a step either leaves the record
\* as it is or is the removal by stopSession; and a request that read such a
\* record makes one tab context, attached to the recorded tab id, launches no
\* browser and does not write the record.
C1_Kept ==
    \A id \in Tokens :
        HasTab(files[id]) =>
            \/ files'[id] = files[id]
            \/ /\ files'[id] = Absent
               /\ \E p \in Procs : /\ inv[p].pc = "stopRemove"
                                   /\ inv[p].config.Session = id
                                   /\ Did(inv'[p], "remove")

C1_Attached(r) ==
    SessionRequest(r) /\ HasTab(r.loaded) =>
        /\ r.tabCtx # "none" =>
              TabContexts(r) = <<Ev("attach", r.loaded.info.TargetID, 0)>>
        /\ ~Did(r, "launch") /\ ~Did(r, "save")
        /\ r.sessionInfo = r.loaded.info

C1_TabReused == [][C1_Kept /\ \A p \in Procs : C1_Attached(inv'[p])]_vars

\* C1 witness: a later request of the session has gone through on the tab of
\* the record, which is still on disk
C1_Witness ==
    \E p \in Procs :
        LET r == inv[p] IN
        /\ SessionRequest(r) /\ HasTab(r.loaded)
        /\ r.pc = "exited" /\ r.exit = 0
        /\ files[r.config.Session] = r.loaded

C3_StopThenFresh ==
    \A p \in Procs :
        LET r == inv[p]
            id == r.config.Session
            pid == r.loaded.info.PID
        IN  /\ StopCall(r) /\ HasRecord(r.loaded) /\ r.pc = "exited" =>
                 /\ EventsOf(r, "signal") =
                        <<Ev("signal", <<"interrupt">>, pid), Ev("signal", <<"kill">>, pid)>>
                 /\ pid \notin running
                 /\ r.exit = 0 => files[id] = Absent /\ r.stdout = <<Stopped(id)>>
            /\ SessionRequest(r) /\ ~HasRecord(r.loaded) =>
                 /\ ~Did(r, "attach")
                 /\ r.tabCtx # "none" =>
                       /\ EventsOf(r, "launch") = <<Ev("launch", <<>>, r.launched)>>
                       /\ TabContexts(r) = <<Ev("newContext", <<>>, 0)>>

\* C3 witness: a stop has succeeded on the record of a browser that a request
\* had launched
C3_Witness ==
    \E p \in Procs :
        LET r == inv[p] IN
        /\ StopCall(r) /\ HasTab(r.loaded)
        /\ r.pc = "exited" /\ r.exit = 0
        /\ files[r.config.Session] = Absent

\* C4. A stop that finds no record, or a file that does not decode, ends with
\* the error session '<id>' not found on the error stream and exit status 1,
\* having done nothing but the read: no signal, no removal, and the step leaves
\* the session files and the browsers as they were.
C4_Ended(r) ==
    StopCall(r) /\ ~HasRecord(r.loaded) =>
        /\ r.pc = "exited" /\ r.exit = 1
        /\ r.err = NotFound(r.config.Session)
        /\ r.stderr = <<StopError(NotFound(r.config.Session))>>
        /\ r.stdout = <<>>
        /\ r.trace = <<Ev("load", r.config.Session, 0)>>

C4_Frame ==
    \A p \in Procs :
        (inv[p].pc = "stopSession" /\ ~HasRecord(files[inv[p].config.Session])) =>
            files' = files /\ running' = running

C4_StopNotFound == [][C4_Frame /\ \A p \in Procs : C4_Ended(inv'[p])]_vars

\* C4 witness: a stop has ended on a file that does not decode
C4_Witness ==
    \E p \in Procs :
        LET r == inv[p] IN
        /\ StopCall(r) /\ r.loaded = Corrupt /\ r.pc = "exited"
        /\ files[r.config.Session] = Corrupt

ContainsToken(args, t) == \E k \in 1..Len(args) : args[k] = t

\* What C5 asks of an invocation that has ended: the message that names
\* --session, exit status 1, and no effect at all
RefusedStop(r) ==
    /\ r.exit = 1
    /\ r.stderr = <<StopRequiresSession>>
    /\ r.stdout = <<>>
    /\ r.trace = <<>>

\* C5 as stated: every command line that contains --stop and yields no
\* session id is refused
C5_Original ==
    \A p \in Procs :
        LET r == inv[p] IN
        (/\ r.pc = "exited"
         /\ ContainsToken(r.args, Flag("stop"))
         /\ parseArgs(r.args).config.Session = <<>>) => RefusedStop(r)

\* C5. Every command line on which --stop is read as a flag (it is not taken
\* as the value of another flag, and the parse does not end at --help or
\* --quickstart) and which yields no session id is refused with the message
\* that names --session and exit status 1, with or without a URL, before any
\* record is read or removed, any process signalled, any browser provisioned
\* or any request made.
C5_StopNeedsSession ==
    \A p \in Procs :
        LET r == inv[p]
            parsed == parseArgs(r.args)
        IN  (/\ r.pc \notin {"idle", "parseArgs"}
             /\ parsed.exit = "none"
             /\ parsed.config.StopSession
             /\ parsed.config.Session = <<>>) =>
               /\ r.pc \in {"main", "exited"}
               /\ r.trace = <<>> /\ r.stdout = <<>>
               /\ r.pc = "exited" => RefusedStop(r)

\* C5 witness: --stop with a URL and no session id has been refused
C5_Witness ==
    \E p \in Procs :
        LET r == inv[p] IN
        /\ r.pc = "exited" /\ RefusedStop(r)
        /\ r.config.StopSession /\ r.config.Session = <<>> /\ r.config.URL # <<>>

\* C6 as stated: in one-shot mode processRequest returns only after the tab
\* context was cancelled and the allocator terminated
C6_Original ==
    \A p \in Procs :
        LET r == inv[p] IN
        (~r.isSession /\ r.pc = "returned" /\ Did(r, "newContext")) =>
            r.tabCtx = "cancelled" /\ r.alloc = "cancelled"

\* C7. In session mode, from the moment the address of the browser is known,
\* the request neither cancels the tab context nor terminates the allocator,
\* signals no process and removes no record, on the way to a result and on the
\* way to an error alike: the browser is still alive and a record it read or
\* wrote is still on disk.
C7_SessionOutlives ==
    \A p \in Procs :
        LET r == inv[p]
            id == r.config.Session
        IN  (SessionRequest(r) /\ r.sessionInfo.WSURL # <<>>) =>
               /\ r.tabCtx # "cancelled" /\ r.alloc # "cancelled"
               /\ \A k \in {"signal", "remove", "cancel", "allocCancel"} : ~Did(r, k)
               /\ r.sessionInfo.PID \in running
               /\ HasRecord(r.loaded) => files[id] = r.loaded
               /\ Did(r, "save") => files[id] = RecordFile(r.sessionInfo)

\* C7 witness: a request of a session has returned an error after the tab
\* context was made
C7_Witness ==
    \E p \in Procs :
        LET r == inv[p] IN
        /\ SessionRequest(r) /\ r.sessionInfo.WSURL # <<>>
        /\ r.pc = "returned" /\ r.err # <<>> /\ r.tabCtx = "open"

\* C8 as stated: every driver operation of a request is issued under the
\* request timeout
C8_Original ==
    \A p \in Procs :
        \A k \in 1..Len(inv[p].trace) :
            inv[p].trace[k].k = "op" => inv[p].trace[k].s[2] # PlainCtx

UrlOnly(r) == Len(r.args) = 1 /\ ~HasPrefix(r.args[1], <<"-", "-">>)

Rule26 ==
    <<"=", "=", "=", "=", "=", "=", "=", "=", "=", "=", "=", "=", "=",
      "=", "=", "=", "=", "=", "=", "=", "=", "=", "=", "=", "=", "=">>

Banner(url) == Rule26 \o <<NL>> \o url \o <<NL>> \o Rule26 \o <<NL>>

\* C9 as stated: the standard output of a successful URL-only run begins with
\* the banner around the URL token as given
C9_Original ==
    \A p \in Procs :
        LET r == inv[p] IN
        (UrlOnly(r) /\ r.pc = "exited" /\ r.exit = 0) =>
            HasPrefix(Join(r.stdout, <<>>), Banner(r.args[1]))

\* C9. In a successful URL-only run the result, which is the last thing
\* written to standard output, begins with the banner around the URL with its
\* scheme: the token as given when it starts with http:// or https://, and the
\* token after http:// otherwise.  Nothing is written before it when the
\* browser was installed and the page is not taken for a LiveView page.
C9_HeaderBanner ==
    \A p \in Procs :
        LET r == inv[p]
            token == r.args[1]
            shown == IF HasPrefix(token, HttpPrefix) \/ HasPrefix(token, HttpsPrefix)
                     THEN token ELSE HttpPrefix \o token
        IN  (UrlOnly(r) /\ r.pc = "exited" /\ r.exit = 0) =>
               /\ HasPrefix(r.stdout[Len(r.stdout)], Banner(shown))
               /\ (~Did(r, "download") /\ ~r.isLiveView) => Len(r.stdout) = 1

\* C9 witness: a URL given without a scheme has been fetched
C9_Witness ==
    \E p \in Procs :
        LET r == inv[p] IN
        /\ UrlOnly(r) /\ r.pc = "exited" /\ r.exit = 0
        /\ r.args[1] = UrlBare

BracketLog == <<"[", "L", "O", "G", "]">>
BracketWarning == <<"[", "W", "A", "R", "N", "I", "N", "G", "]">>
BracketError == <<"[", "E", "R", "R", "O", "R", "]">>
BracketInfo == <<"[", "I", "N", "F", "O", "]">>

\* C10 as stated: every string of the console buffer begins with [LOG],
\* [WARNING] or [ERROR]
C10_Original ==
    \A p \in Procs :
        \A k \in 1..Len(inv[p].consoleMessages) :
            \E prefix \in {BracketLog, BracketWarning, BracketError} :
                HasPrefix(inv[p].consoleMessages[k], prefix)

\* The bracket a console event of a type is given
BracketOf(type) ==
    CASE type = <<"l", "o", "g">> -> BracketLog
      [] type = <<"w", "a", "r", "n", "i", "n", "g">> -> BracketWarning
      [] type = <<"e", "r", "r", "o", "r">> -> BracketError
      [] type = <<"i", "n", "f", "o">> -> BracketInfo

\* C10. Every string the listener appends begins with the type of its event
\* in capitals between brackets, and a space: [LOG], [WARNING] and [ERROR] for
\* those types, [INFO] for info; the string of an exception begins with [ERROR].
C10_Appended ==
    \A p \in Procs :
        LET r == inv[p] IN
        Len(inv'[p].consoleMessages) > Len(r.consoleMessages) =>
            /\ r.cb # NoEvent
            /\ inv'[p].consoleMessages = Append(r.consoleMessages,
                   inv'[p].consoleMessages[Len(inv'[p].consoleMessages)])
            /\ HasPrefix(inv'[p].consoleMessages[Len(inv'[p].consoleMessages)],
                         IF r.cb.kind = "console"
                         THEN BracketOf(r.cb.type) \o <<" ">>
                         ELSE BracketError \o <<" ">>)

C10_Prefixes == [][C10_Appended]_vars

\* C10 witness: the buffer holds the string of an info event
C10_Witness ==
    \E p \in Procs :
        \E k \in 1..Len(inv[p].consoleMessages) :
            HasPrefix(inv[p].consoleMessages[k], BracketInfo \o <<" ">>)

\* An invocation whose command line has been parsed into a configuration
Parsed(r) == r.pc \notin {"idle", "parseArgs"} /\ parseArgs(r.args).exit = "none"

\* --input <name> --value <value> stands at position i of the list
InputAt(args, i) ==
    /\ i + 3 <= Len(args)
    /\ args[i] = Flag("input")
    /\ args[i + 2] = Flag("value")

\* C11. Every Form Input of the configuration is the name and the value of an
\* --input <name> --value <value> that stands in the token list, and there are
\* no more Form Inputs than such places: an --input at the end of the list,
\* one whose name is not followed by --value, and one whose --value is the last
\* token give none.  The parser goes on from a position at most one past the
\* end of the list.
C11_InputNeedsValue ==
    \A p \in Procs :
        LET r == inv[p]
            args == r.args
            inputs == r.config.Inputs
            places == {i \in 1..Len(args) : InputAt(args, i)}
        IN  Parsed(r) =>
               /\ \A k \in 1..Len(inputs) :
                     \E i \in places : inputs[k] = FormInput(args[i + 1], args[i + 3])
               /\ Len(inputs) <= Cardinality(places)
               /\ \A i \in 1..(Len(args) - 1) :
                     args[i] = Flag("input") =>
                        parseInput(args, i, NewConfig).next \in (i + 2)..(Len(args) + 1)

\* C11 witness: --input <name> --value at the end of the list has given no
\* Form Input
C11_Witness ==
    \E p \in Procs :
        LET r == inv[p] IN
        /\ Parsed(r)
        /\ r.args = <<Flag("input"), <<"a">>, Flag("value")>>
        /\ r.config.Inputs = <<>>

\* A token that spells a positive integer
IsPositiveInteger(token) ==
    LET body == IF token # <<>> /\ token[1] = "+" THEN Tail(token) ELSE token IN
    /\ body # <<>>
    /\ \A k \in 1..Len(body) : IsDigit(body[k])
    /\ \E k \in 1..Len(body) : body[k] # "0"

\* The positions of a --truncate-after that is followed by a token
LimitPlaces(args) == {i \in 1..(Len(args) - 1) : args[i] = Flag("truncate-after")}

\* C12 as stated: a --truncate-after whose value is not a positive integer
\* leaves the limit at the default
C12_Original ==
    \A p \in Procs :
        LET r == inv[p] IN
        (Parsed(r) /\ \E i \in LimitPlaces(r.args) : ~IsPositiveInteger(r.args[i + 1])) =>
            r.config.TruncateAfter = DEFAULT_TRUNCATE_AFTER

\* C12. A --truncate-after whose value is not a positive integer leaves the
\* limit as it was: the limit is the default 100000 unless some
\* --truncate-after of the list is followed by a positive integer, and then it
\* is the default or one of those integers.
C12_InvalidLimitIgnored ==
    \A p \in Procs :
        LET r == inv[p]
            args == r.args
            valid == {i \in LimitPlaces(args) : IsPositiveInteger(args[i + 1])}
        IN  Parsed(r) =>
               /\ r.config.TruncateAfter \in
                     {DEFAULT_TRUNCATE_AFTER} \cup {DigitsVal(args[i + 1], 0) : i \in valid}
               /\ \A i \in LimitPlaces(args) \ valid :
                     parseTruncateAfter(args[i + 1], r.config) = r.config

\* C12 witness: an invalid value after a valid one has left the limit of the
\* valid one
C12_Witness ==
    \E p \in Procs :
        LET r == inv[p] IN
        /\ Parsed(r)
        /\ r.args = <<Flag("truncate-after"), <<"2">>, Flag("truncate-after"), <<"0">>>>
        /\ r.config.TruncateAfter = 2

\* C13. The limit of every configuration the parser returns is at least 1, so
\* that the cut of a cleaned text longer than the limit is a cut inside the
\* text, of exactly limit symbols.
C13_LimitPositive ==
    \A p \in Procs :
        LET r == inv[p]
            limit == r.config.TruncateAfter
        IN  Parsed(r) =>
               /\ limit >= 1
               /\ \A text \in Texts :
                     LET markdown == cleanMarkdown(text) IN
                     Len(markdown) > limit =>
                        /\ limit \in 1..Len(markdown)
                        /\ Len(SubSeq(markdown, 1, limit)) = limit

\* C13 witness: zero and a negative number were given, and a limit below the
\* length of a cleaned text was set
C13_Witness ==
    \E p \in Procs :
        LET r == inv[p] IN
        /\ Parsed(r)
        /\ ContainsToken(r.args, <<"0">>) /\ ContainsToken(r.args, <<"-", "5">>)
        /\ r.config.TruncateAfter = 2
        /\ \E text \in Texts : Len(cleanMarkdown(text)) > 2

\* A string that spells an integer: an optional sign and decimal digits
IsInteger(str) ==
    LET body == IF str # <<>> /\ str[1] \in {"+", "-"} THEN Tail(str) ELSE str IN
    body # <<>> /\ \A k \in 1..Len(body) : IsDigit(body[k])

Unsigned(str) == IF str[1] \in {"+", "-"} THEN Tail(str) ELSE str

\* ... of a value that fits an int
FitsInt(str) == ~OutOfRange(Unsigned(str), str[1] = "-")

IntOf(str) ==
    IF str[1] = "-" THEN 0 - DigitsVal(Unsigned(str), 0) ELSE DigitsVal(Unsigned(str), 0)

XPlaces(size) == {k \in 1..Len(size) : size[k] = "x"}

LeftOf(size) == SubSeq(size, 1, (CHOOSE k \in XPlaces(size) : TRUE) - 1)

RightOf(size) == SubSeq(size, (CHOOSE k \in XPlaces(size) : TRUE) + 1, Len(size))

\* Two integers with one 'x' between them
TwoIntegers(size) ==
    /\ Cardinality(XPlaces(size)) = 1
    /\ IsInteger(LeftOf(size)) /\ IsInteger(RightOf(size))

\* C14 as stated: the window size given to the browser is the two integers of
\* the value when it is two integers separated by one 'x', and 1280 by 720
\* otherwise.  (A width of more than nine digits is compared on the height
\* alone.)
C14_Original ==
    \A p \in Procs :
        LET r == inv[p]
            size == r.config.WindowSize
        IN  r.window # <<>> =>
               IF TwoIntegers(size)
               THEN /\ r.window[2] = IntOf(RightOf(size))
                    /\ Len(LeftOf(size)) <= 9 => r.window[1] = IntOf(LeftOf(size))
               ELSE r.window = <<1280, 720>>

\* C14. The window size given to the browser is the two integers of the value
\* when it is two integers that fit an int, separated by one 'x', and 1280 by
\* 720 for every other value; whatever the value, the request goes on to the
\* start of the browser.
C14_WindowSize ==
    \A p \in Procs :
        LET r == inv[p]
            size == r.config.WindowSize
        IN  /\ r.window # <<>> =>
                 /\ r.window =
                       IF /\ TwoIntegers(size)
                          /\ FitsInt(LeftOf(size)) /\ FitsInt(RightOf(size))
                       THEN <<IntOf(LeftOf(size)), IntOf(RightOf(size))>>
                       ELSE <<1280, 720>>
                 /\ r.err \in {<<>>, <<"failed to start browser">>}
            /\ (size # <<>> /\ r.pc \in {"timeout", "waitForBrowserReady"}) =>
                 r.window # <<>>

\* C14 witness: a width that does not fit an int has given 1280 by 720, and
\* the request has gone on
C14_Witness ==
    \E p \in Procs :
        LET r == inv[p] IN
        /\ r.config.WindowSize = BigNumber \o <<"x", "1">>
        /\ r.window = <<1280, 720>>
        /\ r.pc = "timeout"

\* The flags that take the next token as their value
ValueFlags ==
    { Flag("truncate-after"), Flag("screenshot"), Flag("form"), Flag("after-submit"),
      Flag("js"), Flag("profile"), Flag("window-size"), Flag("session") }

\* The tokens from position i on that are neither flags nor the value of a
\* flag, in order: a flag with a value takes the next token, --input takes its
\* name and, when --value follows the name, --value and the token after it
RECURSIVE FreeTokensFrom(_, _)
FreeTokensFrom(args, i) ==
    IF i > Len(args) THEN <<>>
    ELSE IF args[i] \in ValueFlags THEN FreeTokensFrom(args, i + 2)
    ELSE IF args[i] = Flag("input")
         THEN FreeTokensFrom(args, IF i + 2 <= Len(args) /\ args[i + 2] = Flag("value")
                                   THEN i + 4 ELSE i + 2)
    ELSE IF HasPrefix(args[i], <<"-", "-">>) THEN FreeTokensFrom(args, i + 1)
    ELSE <<args[i]>> \o FreeTokensFrom(args, i + 1)

\* C15 as stated: the target URL of the configuration is the first token that
\* is neither a flag nor the value of a flag, and is empty when there is none
C15_Original ==
    \A p \in Procs :
        LET r == inv[p]
            free == FreeTokensFrom(r.args, 1)
        IN  Parsed(r) =>
               r.config.URL = IF free = <<>> THEN <<>> ELSE free[1]

\* C15. The target URL of the configuration is the first non-empty token
\* that is neither a flag nor the value of a flag, and is empty when there is
\* none: an empty token does not count as a URL; a flag the parser does not
\* know changes nothing, and once the URL is set no token that is not a flag
\* changes it.
C15_FirstFreeToken ==
    \A p \in Procs :
        LET r == inv[p]
            free == SelectSeq(FreeTokensFrom(r.args, 1), LAMBDA t : t # <<>>)
        IN  Parsed(r) =>
               /\ r.config.URL = IF free = <<>> THEN <<>> ELSE free[1]
               /\ parseOther(Flag("bogus"), r.config) = r.config
               /\ r.config.URL # <<>> =>
                     \A t \in ParseTokens : parseOther(t, r.config) = r.config

\* C15 witness: an empty token, then a word, then a second word behind a flag
\* with a value and an unknown flag
C15_Witness ==
    \E p \in Procs :
        LET r == inv[p] IN
        /\ Parsed(r)
        /\ r.args = << <<>>, <<"a">>, Flag("bogus"), <<"2">> >>
        /\ r.config.URL = <<"a">>

\* C16 as stated: a cleaned text of length L above the limit is cut to the
\* limit and followed by the notice, and the notice gives L as the full length
C16_Original ==
    \A p \in Procs :
        LET r == inv[p]
            limit == r.config.TruncateAfter
            cleaned == cleanMarkdown(r.text)
            L == Len(cleaned)
        IN  (r.text # <<>> /\ L > limit) =>
               /\ r.markdown = SubSeq(cleaned, 1, limit) \o TruncationNotice(limit, L)
               /\ Len(r.markdown) = limit + Len(TruncationNotice(limit, L))

\* A run of a request that has ended on an error of the provisioner or of
\* processRequest
FatalRun(r) == ~r.config.StopSession /\ r.pc = "exited" /\ r.err # <<>>

RequestError(err) == <<"Error processing request: ">> \o err \o <<NL>>

\* The lines the error stream may hold before the error
Notices == {"Connecting to session '", "Starting new session '",
            "Warning: Could not inject stealth script"}

\* C17 as stated: a fatal run writes nothing to standard output and one
\* message to the error stream, and exits with a status other than 0
C17_Original ==
    \A p \in Procs :
        LET r == inv[p] IN
        FatalRun(r) => r.stdout = <<>> /\ Len(r.stderr) = 1 /\ r.exit # 0

\* C17. A fatal run never writes the result or a part of it to standard
\* output, which holds at most progress lines printed before the error; the
\* error stream ends with the one formatted error message, after at most
\* session notices and the stealth warning; the exit status is 1.
C17_FatalPath ==
    \A p \in Procs :
        LET r == inv[p]
            n == Len(r.stderr)
        IN  FatalRun(r) =>
               /\ r.exit = 1
               /\ r.result = <<>>
               /\ \A k \in 1..Len(r.stdout) :
                     /\ r.stdout[k] # Line(r.result)
                     /\ ~HasPrefix(r.stdout[k], Rule26)
                     /\ ~HasPrefix(r.stdout[k], PageHTML)
               /\ n >= 1
               /\ r.stderr[n] \in {ChromiumError(r.err), RequestError(r.err)}
               /\ \A k \in 1..(n - 1) : r.stderr[k][1] \in Notices

\* C17 witness: a request has failed after the LiveView progress lines were
\* printed
C17_Witness ==
    \E p \in Procs :
        LET r == inv[p] IN
        /\ FatalRun(r) /\ r.isLiveView
        /\ Len(r.stdout) > 0
        /\ r.err = <<"could not get page content">>

\* C18. With the raw-output flag a request that succeeds returns the captured
\* markup and nothing else: it is never converted, cleaned, cut or given a
\* header, the console buffer is not read, and the last line on standard output
\* is the markup, whatever the limit and whatever the console buffer holds.
C18_RawOutput ==
    \A p \in Procs :
        LET r == inv[p] IN
        (r.config.RawFlag /\ ~r.config.StopSession) =>
           /\ r.pc \notin {"convert", "consoleLock", "consoleRead", "blank", "cancel"}
           /\ r.text = <<>> /\ r.markdown = <<>> /\ r.read = <<>>
           /\ (r.pc \in {"returned", "exited"} /\ r.err = <<>> /\ Did(r, "op")) =>
                 /\ r.content = PageHTML
                 /\ r.result = r.content
                 /\ r.pc = "exited" =>
                       r.exit = 0 /\ r.stdout[Len(r.stdout)] = Line(r.content)

\* C18 witness: markup longer than the limit has been returned while the
\* console buffer held a message
C18_Witness ==
    \E p \in Procs :
        LET r == inv[p] IN
        /\ r.config.RawFlag /\ r.pc = "exited" /\ r.exit = 0
        /\ r.config.TruncateAfter < Len(r.result)
        /\ r.consoleMessages # <<>>

\* C19. With the executable at the expected path, the step of ensureChromium
\* returns success and does nothing else: nothing is downloaded, made or
\* extracted, nothing is printed, and the files, the executable and the browsers
\* are as before, in the first run and in every later one.
C19_Step ==
    \A p \in Procs :
        (/\ inv[p].pc = "ensureChromium" /\ inv'[p].pc # "ensureChromium"
         /\ chromium /\ goos \in Supported) =>
            /\ inv'[p] = [inv[p] EXCEPT !.pc = "processRequest"]
            /\ chromium' /\ files' = files /\ running' = running

C19_Idempotent == [][C19_Step]_vars

\* C19 witness: ensureChromium has returned without an effect in a run that
\* follows the run which started the session
C19_Witness ==
    \E p \in Procs :
        LET r == inv[p] IN
        /\ r.pc = "processRequest" /\ r.trace = <<>> /\ r.stdout = <<>>
        /\ chromium /\ HasRecord(files[Sid])

\* C20 as stated: cleaning a cleaned text gives the same text
C20_Original ==
    \A p \in Procs :
        LET r == inv[p]
            once == cleanMarkdown(r.text)
        IN  r.text # <<>> => cleanMarkdown(once) = once

\* A request whose converted text has been cleaned
Cleaned(r) == r.pc = "consoleLock"

\* The lines of a text
Lines(text) == Split(text, NL)

\* C21. The cleaned text of every converted text holds no three newlines in a
\* row, and the loop that collapses them ends: every pass shortens the text,
\* so that the loop makes at most as many passes as the text has symbols.
C21_NoTripleNewline ==
    \A p \in Procs :
        LET r == inv[p]
            passes == CollapseCount(r.text)
            collapsed == CollapseBlankLines(r.text)
        IN  Cleaned(r) =>
               /\ r.markdown = cleanMarkdown(r.text)
               /\ ~Contains(r.markdown, <<NL, NL, NL>>)
               /\ ~Contains(collapsed, <<NL, NL, NL>>)
               /\ passes <= Len(r.text)
               /\ Len(collapsed) <= Len(r.text) - passes

\* C21 witness: a text with four newlines in a row between two letters, which
\* one replacement does not bring down to two, has been cleaned
C21_Witness ==
    \E p \in Procs :
        LET r == inv[p] IN
        /\ Cleaned(r)
        /\ r.text = <<"a", NL, NL, NL, NL, "a">>
        /\ CollapseCount(r.text) = 2
        /\ r.markdown = <<"a", NL, NL, "a">>

\* A line that starts with a bullet marker
IsBulletLine(line) == HasPrefix(line, <<"*", " ">>) \/ HasPrefix(line, <<"-", " ">>)

\* A line that starts with "- " and a symbol that is not a space
IsCleanBullet(line) ==
    /\ HasPrefix(line, <<"-", " ">>)
    /\ Len(line) >= 3
    /\ ~IsSpace(line[3])

\* C22 as stated: every line of the converted text that starts with a bullet
\* marker and holds an item is, in the cleaned text, a line that starts with
\* "- " followed by a symbol that is not a space
C22_Original ==
    \A p \in Procs :
        LET r == inv[p]
            before == Lines(CollapseBlankLines(r.text))
            after == Lines(r.markdown)
        IN  (Cleaned(r) /\ Len(after) = Len(before)) =>
               \A k \in 1..Len(before) :
                  (IsBulletLine(before[k]) /\ TrimSpace(SubSeq(before[k], 3, Len(before[k]))) # <<>>)
                     => IsCleanBullet(after[k])

\* C23. The mutex is held by the listener exactly while a callback is between
\* its Lock and its Unlock and by main exactly while it reads, never by both;
\* the buffer changes only by the append of a callback that holds the mutex,
\* which puts its string at the end and keeps what was there; the final read
\* is made by main while it holds the mutex and sees the buffer as it is, that
\* is every string appended so far in the order of the appends, and the
\* console section of the result lists them in that order.
C23_Held(r) ==
    /\ r.consoleMu = "listener" <=> r.cb # NoEvent
    /\ r.consoleMu = "main" <=> r.pc = "consoleRead"
    /\ ~(r.cb # NoEvent /\ r.pc = "consoleRead")

C23_Access(r, after) ==
    /\ after.consoleMessages # r.consoleMessages =>
          /\ r.consoleMu = "listener" /\ after.consoleMu = "free"
          /\ Formatted(r.cb) # <<>>
          /\ after.consoleMessages = Append(r.consoleMessages, Formatted(r.cb))
          /\ after.pc = r.pc /\ after.read = r.read
    /\ (r.pc = "consoleRead" /\ after.pc # "consoleRead") =>
          /\ r.consoleMu = "main" /\ after.consoleMu = "free"
          /\ after.read = r.consoleMessages
          /\ after.consoleMessages = r.consoleMessages
          /\ after.result = r.result \o ConsoleSection(r.consoleMessages)
    /\ after.read # r.read => r.pc = "consoleRead"

C23_MutualExclusion ==
    [][\A p \in Procs : C23_Held(inv'[p]) /\ C23_Access(inv[p], inv'[p])]_vars

\* C23 witness: two different strings were appended during a request, and the
\* final read has seen both in the order of the appends
C23_Witness ==
    \E p \in Procs :
        LET r == inv[p] IN
        /\ Len(r.read) = 2 /\ r.read[1] # r.read[2]
        /\ r.read = r.consoleMessages
        /\ r.pc = "exited" /\ r.exit = 0

\* The driver operations of an invocation, by name and in the order of issue
OpNames(r) ==
    LET ops == EventsOf(r, "op") IN [k \in 1..Len(ops) |-> ops[k].s[1]]

\* The order of the driver operations of processRequest.  The round trip that
\* makes the tab of a new session comes first; the form step is the fills, the
\* two counts of submit controls and the submit action; the script step is the
\* location, the evaluation, the location and the readiness wait; the
\* navigation to about:blank of the one-shot teardown follows the capture.
StepOrder ==
    <<"init", "addScript", "navigate", "waitReady", "detect", "waitVisible",
      "fill", "count", "count", "submit",
      "location", "evaluate", "location", "waitReady",
      "screenshot", "navigate", "waitReady", "outerHTML", "navigate">>

StepName(op) == IF op \in {"click", "sendKeys"} THEN "submit" ELSE op

\* The operations from position i on follow StepOrder from the place after
\* stage on; only the fill may be repeated
RECURSIVE FollowsOrder(_, _, _)
FollowsOrder(names, i, stage) ==
    IF i > Len(names) THEN TRUE
    ELSE LET name == StepName(names[i])
             places == {s \in 1..Len(StepOrder) :
                           /\ StepOrder[s] = name
                           /\ s > stage \/ (s = stage /\ name = "fill")}
         IN  /\ places # {}
             /\ FollowsOrder(names, i + 1,
                             CHOOSE s \in places : \A t \in places : s <= t)

Count(names, name) == Cardinality({k \in 1..Len(names) : names[k] = name})

\* C24. The driver operations of a request follow the order of StepOrder,
\* each step at most once and a fill for at most every input: the stealth
\* script is injected before the navigation to the target when and only when
\* --stealth is given, then come the navigation, the wait for the body, the
\* detection, the form, the script with its wait, the screenshot, the
\* navigation to the post-submit URL and the capture of the outer markup; a
\* step is taken only with its option; after the capture a session request
\* issues nothing and a one-shot request only the navigation of its teardown.
\* Every step of the program issues at most one operation, after the ones
\* issued before.
C24_Ordered(r) ==
    LET names == OpNames(r)
        has(name) == Count(names, name) > 0
    IN  /\ FollowsOrder(names, 1, 0)
        /\ has("navigate") => (has("addScript") <=> r.config.Stealth)
        /\ Count(names, "fill") <= Len(r.config.Inputs)
        /\ (has("fill") \/ has("count") \/ has("click") \/ has("sendKeys")) =>
              r.config.FormID # <<>>
        /\ (has("location") \/ has("evaluate")) => r.config.JSCode # <<>>
        /\ has("screenshot") => r.config.ScreenshotPath # <<>>
        /\ Count(names, "navigate") > (IF r.isSession THEN 1 ELSE 2) =>
              r.config.AfterSubmitURL # <<>>
        /\ (Count(names, "navigate") > 1 /\ ~has("outerHTML")) =>
              r.config.AfterSubmitURL # <<>>
        /\ Count(names, "outerHTML") <= 1
        /\ (has("outerHTML") /\ r.isSession) => names[Len(names)] = "outerHTML"

C24_OneAtATime(r, after) ==
    LET ops == EventsOf(r, "op")
        later == EventsOf(after, "op")
    IN  \/ later = ops
        \/ Len(later) = Len(ops) + 1 /\ SubSeq(later, 1, Len(ops)) = ops

C24_StepOrder ==
    [][\A p \in Procs : C24_Ordered(inv'[p]) /\ C24_OneAtATime(inv[p], inv'[p])]_vars

\* C24 witness: a one-shot request with every option has taken every step
C24_Witness ==
    \E p \in Procs :
        LET r == inv[p]
            names == OpNames(r)
        IN  /\ r.pc = "exited" /\ r.exit = 0 /\ ~r.isSession
            /\ \A name \in {"addScript", "detect", "click", "evaluate",
                              "screenshot", "outerHTML"} :
                   Count(names, name) = 1
            /\ Count(names, "fill") = 2 /\ Count(names, "location") = 2
            /\ Count(names, "navigate") = 3 /\ Count(names, "waitReady") = 3

\* The steps whose failure the claim lets pass, by control position
ClaimedTolerated == {"stealth", "liveView", "detect", "jsWait", "afterWait"}

\* ... and the further steps whose failure lets the request go on: the two
\* counts of submit controls, the two reads of the location, the evaluation
\* of the user script and the navigation to about:blank of the teardown
AlsoTolerated == {"formCount", "formSubmitCount", "jsLoc", "jsEval", "jsAfter", "blank"}

\* The beginning of the error a failing step returns
WrappedErrors(pc) ==
    CASE pc = "init" -> {"failed to initialize browser context"}
      [] pc = "navigate" -> {"could not navigate to "}
      [] pc = "waitReady" -> {"page did not load"}
      [] pc \in {"formFill", "formEnterLiveView", "formClick", "formEnter"} ->
            {"error handling form: "}
      [] pc = "screenshot" -> {"error taking screenshot", "error saving screenshot"}
      [] pc = "afterNav" -> {"could not navigate to after-submit URL"}
      [] pc = "outerHTML" -> {"could not get page content"}
      [] OTHER -> {}

\* A step that issues a driver operation ends the request only with the
\* wrapped error of the step and no result, and never from a tolerated step;
\* once the request timeout has expired, so that the operation fails, it ends
\* the request when and only when the step is not tolerated
FailureRule(r, after, tolerated) ==
    LET issued == Len(EventsOf(after, "op")) = Len(EventsOf(r, "op")) + 1
        aborted == after.pc = "returned" /\ after.err # <<>>
    IN  issued =>
           /\ aborted =>
                 /\ after.result = <<>>
                 /\ after.err[1] \in WrappedErrors(r.pc)
                 /\ r.pc \notin tolerated
           /\ r.deadline = "expired" => (aborted <=> r.pc \notin tolerated)

\* C25 as stated: a failing step lets the request go on when and only when it
\* is the stealth injection, the LiveView connection wait, the detection or a
\* readiness wait after the script or after the post-submit navigation
C25_Original ==
    [][\A p \in Procs : FailureRule(inv[p], inv'[p], ClaimedTolerated)]_vars

\* C25. A failing step lets the request go on when and only when it is the
\* stealth injection, the LiveView connection wait, the detection, a count of
\* submit controls, a read of the location before or after the user script,
\* the evaluation of the user script, a readiness wait after the script or
\* after the post-submit navigation, or the navigation of the one-shot
\* teardown; the failure of any other step (the navigation to the target,
\* the wait for the body, a fill, the submit action, the screenshot, the
\* post-submit navigation, the capture) returns its wrapped error and no result.
C25_Tolerated ==
    [][\A p \in Procs :
          FailureRule(inv[p], inv'[p], ClaimedTolerated \cup AlsoTolerated)]_vars

\* C25 witness: the user script has failed and the request has come to its
\* result all the same
C25_Witness ==
    \E p \in Procs :
        LET r == inv[p] IN
        /\ r.pc = "exited" /\ r.exit = 0
        /\ \E k \in 1..Len(r.stdout) :
               r.stdout[k] = <<"Warning: JavaScript execution failed", NL>>
        /\ r.stdout[Len(r.stdout)] = Line(r.result)

\* The submit actions of an invocation: clicks and Enter keystrokes
SubmitActions(r) ==
    SelectSeq(r.trace, LAMBDA e : e.k = "op" /\ e.s[1] \in {"click", "sendKeys"})

\* The places of the history at which e stands
PlacesOf(r, e) == {k \in 1..Len(r.trace) : r.trace[k] = e}

\* C26. The fills of handleForm are those of the inputs in list order, one
\* for each, as far as it gets; there is at most one submit action, it comes
\* after the fill of the last input, and only when every fill has succeeded: a
\* failed fill ends the request without one.  On a LiveView page the submit
\* action is the Enter keystroke, with no count of submit controls and no
\* click; on another page it is the click when the count of submit controls is
\* above zero and the Enter keystroke when it is zero.  A form step that has
\* reported the submission has made exactly one submit action.
C26_FormOrder ==
    \A p \in Procs :
        LET r == inv[p]
            inputs == r.config.Inputs
            fills == EventsOf(r, "fill")
            submits == SubmitActions(r)
            names == OpNames(r)
            reported == \E k \in 1..Len(r.stdout) :
                           r.stdout[k] \in {<<"Form submitted", NL>>,
                                            <<"LiveView form submitted", NL>>}
        IN  /\ Len(fills) <= Len(inputs)
            /\ \A k \in 1..Len(fills) : fills[k] = Ev("fill", inputs[k].Name, k)
            /\ Len(submits) <= 1
            /\ Len(submits) = 1 =>
                  /\ Len(fills) = Len(inputs) /\ r.formIdx = Len(inputs) + 1
                  /\ \A k \in PlacesOf(r, submits[1]) :
                        \A j \in 1..Len(fills) : \A i \in PlacesOf(r, fills[j]) : i < k
                  /\ submits[1].s[1] = (IF r.isLiveView \/ r.submitCount = 0
                                        THEN "sendKeys" ELSE "click")
            /\ r.isLiveView => Count(names, "click") = 0 /\ Count(names, "count") = 0
            /\ (r.err # <<>> /\ r.err[1] = "error handling form: "
                   /\ r.err[2] = "could not fill input ") => Len(submits) = 0
            /\ reported => Len(submits) = 1

\* C26 witness: on a page that is not a LiveView page two inputs were filled
\* and, no submit control being found, the Enter keystroke was sent
C26_Witness ==
    \E p \in Procs :
        LET r == inv[p] IN
        /\ ~r.isLiveView /\ r.submitCount = 0
        /\ Len(EventsOf(r, "fill")) = 2
        /\ Len(SubmitActions(r)) = 1 /\ SubmitActions(r)[1].s[1] = "sendKeys"
        /\ r.pc = "exited" /\ r.exit = 0

\* C27 as stated: on a LiveView page and on any other page, the step that
\* reads the location after the user script and its fixed delay goes on to a
\* readiness wait when and only when that location differs from the one read
\* before the script
C27_Original ==
    [][\A p \in Procs :
          (inv[p].pc = "jsAfter" /\ inv'[p].pc # "jsAfter") =>
             (inv'[p].pc = "jsWait" <=> inv'[p].newURL # inv[p].currentURL)]_vars

\* The file of a session holds a record with the process id pid
RecordsPid(file, pid) == HasRecord(file) /\ file.info.PID = pid

\* C28 as stated: when a request of a session has launched a browser and
\* returns an error, the browser has been killed or the record with its
\* process id is on disk
C28_Original ==
    \A p \in Procs :
        LET r == inv[p] IN
        (/\ SessionRequest(r) /\ r.launched > 0
         /\ r.pc \in {"returned", "exited"} /\ r.err # <<>>) =>
            \/ r.launched \notin running
            \/ RecordsPid(files[r.config.Session], r.launched)

\* The fields of a record that name the browser
BrowserOf(info) == <<info.WSURL, info.Profile, info.Headful, info.PID>>

\* C29. A request that has read a decodable record launches no browser and
\* applies no window size; the address, profile, headful flag and process id
\* it works with are those of the record, whatever --profile, --headful and
\* --window-size it carries, and the record on disk keeps them.  A record
\* whose process is not alive stays as it is, and its process stays dead,
\* until stopSession removes the record; and while the process is not alive
\* every operation of such a request fails, so that the navigation to the
\* target, the wait for the body or the capture returns an error.
C29_Reattached(r) ==
    SessionRequest(r) /\ HasRecord(r.loaded) =>
        /\ r.launched = 0 /\ ~Did(r, "launch") /\ r.window = <<>>
        /\ BrowserOf(r.sessionInfo) = BrowserOf(r.loaded.info)
        /\ HasRecord(files[r.config.Session])
        /\ BrowserOf(files[r.config.Session].info) = BrowserOf(r.loaded.info)
        /\ r.tabCtx # "none" => Did(r, "attach") \/ Did(r, "newContext")

C29_DeadStaysDead ==
    \A id \in Tokens :
        (HasRecord(files[id]) /\ files[id].info.PID \notin running) =>
            /\ files[id].info.PID \notin running'
            /\ \/ files'[id] = files[id]
               \/ /\ files'[id] = Absent
                  /\ \E p \in Procs : /\ inv[p].pc = "stopRemove"
                                      /\ inv[p].config.Session = id

C29_DeadFails(r, after) ==
    (/\ SessionRequest(r) /\ HasRecord(r.loaded)
     /\ r.loaded.info.PID \notin running
     /\ Len(EventsOf(after, "op")) = Len(EventsOf(r, "op")) + 1
     /\ r.pc \in {"init", "navigate", "waitReady", "outerHTML"}) =>
        after.pc = "returned" /\ after.err # <<>> /\ after.result = <<>>

C29_RecordRules ==
    [][/\ C29_DeadStaysDead
       /\ \A p \in Procs : /\ C29_Reattached(inv'[p])
                            /\ C29_DeadFails(inv[p], inv'[p])]_vars

\* C29 witness: a request with a profile, a visible window and a window size
\* of its own has read the record of a browser that is no longer alive and
\* has failed; the record is still on disk
C29_Witness ==
    \E p \in Procs :
        LET r == inv[p] IN
        /\ SessionRequest(r) /\ HasRecord(r.loaded)
        /\ r.config.Profile = <<"q">> /\ r.config.Headful /\ r.config.WindowSize # <<>>
        /\ r.loaded.info.Profile = DefaultProfile /\ ~r.loaded.info.Headful
        /\ r.loaded.info.PID \notin running
        /\ r.pc = "exited" /\ r.exit = 1
        /\ files[r.config.Session] = r.loaded

\* C30 as stated, for two invocations that have both ended with success: a
\* browser one of them launched for the session and that is still running is
\* the one the record of the session names
C30_Original ==
    (\A p \in Procs : inv[p].pc = "exited" /\ inv[p].exit = 0) =>
        \A p \in Procs :
            LET r == inv[p] IN
            (r.launched > 0 /\ r.launched \in running) =>
                RecordsPid(files[r.config.Session], r.launched)

====
